---- MODULE Spec2Model ----
(***************************************************************************)
(* Date resolution of the calendar-event manager: the nth-weekday          *)
(* calculator, the relative-date calculator and the recursive resolver     *)
(* calculateEventDate, in its server (routes.ts) and client (date-utils,   *)
(* bundled in ics-export.ts) versions.                                     *)
(***************************************************************************)
EXTENDS Integers, Sequences, FiniteSets, TLC

(***************************************************************************)
(* JavaScript values.  A nullable field is a tuple: <<>> is null, <<0,0>>  *)
(* is undefined (an absent key), <<v>> is the value v.  A function result  *)
(* is <<>> (null), <<t>> (a Date) or <<"throw", name>> (an exception).     *)
(***************************************************************************)
Null == <<>>
Undefined == <<0, 0>>
Some(v) == <<v>>
Throw(name) == <<"throw", name>>
IsDate(r) == Len(r) = 1
IsThrow(r) == Len(r) = 2

\* JavaScript truthiness of a nullable number: null, undefined and 0 are falsy.
TruthyNum(x) == Len(x) = 1 /\ x[1] # 0
\* JavaScript truthiness of a nullable string: null, undefined and "" are falsy.
TruthyStr(x) == Len(x) = 1 /\ x[1] # ""

(***************************************************************************)
(* State                                                                   *)
(***************************************************************************)
VARIABLES
  tzOffset,   \* the runtime's time zone, in hours east of UTC
  clockYear,  \* new Date().getFullYear(): the wall clock's year
  events,     \* the snapshot allEvents, in stored (creation) order
  resolver,   \* which calculateEventDate runs: "server" or "client"
  started,    \* index in events of the event the top-level call resolves
  stack,      \* the active calls of calculateEventDate: their event arguments
  pc,         \* where the innermost call stands
  scanDate,   \* the loop variable of calculateNthDate's first loop
  scanned,    \* how many times that loop's body has run
  ret,        \* the value being returned, at "done" the top-level result
  retOwner,   \* which object the returned Date is: <<>> for a new object,
              \* <<id, field>> for the Date object held by a stored event
  earlier,    \* <<event index, result, snapshot, resolver>> of the call before
              \* this one, or <<>>
  nthArgs,    \* the arguments of a direct call of calculateNthDate
  nthResult,  \* its result, or Pending before the call
  relArgs,    \* the arguments of a direct call of calculateRelativeDate
  relResult,  \* its result, or Pending before the call
  relBase,    \* the Date object passed as baseDate, as it is after the call
  store,      \* the stored events, in creation order (storage.getAllEvents())
  exported,   \* the outcome of the last ICS export, or NotExported
  writes,     \* how many times storage has been written (update, delete)
  nextId,     \* the id (and creation time) the next created event gets
  reply,      \* the response to the last request answered in one step
  yearOp,     \* POST /api/events/update-year being handled: its locals
  clearOp,    \* DELETE /api/events being handled: its locals
  importOp    \* POST /api/events/import being handled: its locals

vars == <<tzOffset, clockYear, events, resolver, started, stack, pc, scanDate,
          scanned, ret, retOwner, earlier, nthArgs, nthResult, relArgs, relResult,
          relBase, store, exported, writes, nextId, reply, yearOp, clearOp,
          importOp>>

(***************************************************************************)
(* The ECMAScript Date object: a Date is an instant, the number of hours   *)
(* since 1970-01-01T00:00Z; its getters and setters read it in local time. *)
(***************************************************************************)
\* Day number of the civil date year-month-day (month 1..12, any integer day).
DaysFromCivil(year, month, day) ==
  LET y == IF month <= 2 THEN year - 1 ELSE year
      era == y \div 400
      yoe == y - era * 400
      mp == IF month > 2 THEN month - 3 ELSE month + 9
      doy == (153 * mp + 2) \div 5 + day - 1
      doe == yoe * 365 + yoe \div 4 - yoe \div 100 + doy
  IN era * 146097 + doe - 719468

\* The civil date <<year, month 1..12, day>> of a day number.
CivilFromDays(z0) ==
  LET z == z0 + 719468
      era == z \div 146097
      doe == z - era * 146097
      yoe == (doe - doe \div 1460 + doe \div 36524 - doe \div 146096) \div 365
      doy == doe - (365 * yoe + yoe \div 4 - yoe \div 100)
      mp == (5 * doy + 2) \div 153
      d == doy - (153 * mp + 2) \div 5 + 1
      m == IF mp < 10 THEN mp + 3 ELSE mp - 9
  IN <<IF m <= 2 THEN yoe + era * 400 + 1 ELSE yoe + era * 400, m, d>>

\* MakeDay of ECMAScript: month index and day overflow into the next units.
MakeDay(year, monthIndex, day) ==
  DaysFromCivil(year + monthIndex \div 12, (monthIndex % 12) + 1, 1) + day - 1

\* LocalTime and UTC of ECMAScript, without daylight saving.
LocalDay(t) == (t + tzOffset) \div 24
LocalHour(t) == (t + tzOffset) % 24
FromLocal(day, hour) == day * 24 + hour - tzOffset

\* new Date(year, monthIndex, day): local midnight; a year in 0..99 means
\* 1900 + year.
NewDate(year, monthIndex, day) ==
  FromLocal(MakeDay(IF year \in 0..99 THEN 1900 + year ELSE year, monthIndex, day), 0)

\* new Date("YYYY-MM-DD") and new Date("YYYY-MM-DDT00:00:00.000Z"): UTC midnight.
ParseISO(year, month, day) == DaysFromCivil(year, month, day) * 24

getFullYear(t) == CivilFromDays(LocalDay(t))[1]
getMonth(t) == CivilFromDays(LocalDay(t))[2] - 1
getDate(t) == CivilFromDays(LocalDay(t))[3]
\* 0 = Sunday .. 6 = Saturday; 1970-01-01 was a Thursday.
getDay(t) == ((LocalDay(t) + 4) % 7)

setDate(t, day) ==
  FromLocal(MakeDay(getFullYear(t), getMonth(t), day), LocalHour(t))
\* (a setMonth that would clamp the day to the end of the target month)
setMonth_ClampDay(t, monthIndex) ==
  LET first == CivilFromDays(MakeDay(getFullYear(t), monthIndex, 1))
      next == MakeDay(getFullYear(t), monthIndex + 1, 1)
      length == next - MakeDay(getFullYear(t), monthIndex, 1)
      day == IF getDate(t) > length THEN length ELSE getDate(t)
  IN FromLocal(MakeDay(first[1], first[2] - 1, day), LocalHour(t))
setMonth(t, monthIndex) ==
  FromLocal(MakeDay(getFullYear(t), monthIndex, getDate(t)), LocalHour(t))
setFullYear(t, year) ==
  FromLocal(MakeDay(year, getMonth(t), getDate(t)), LocalHour(t))

(***************************************************************************)
(* calculateNthDate                                                        *)
(***************************************************************************)
\* date.getDay() !== dayOfWeek, where dayOfWeek may be null at run time.
WeekdayDiffers_MondayFirst(date, dayOfWeek) ==
  IF Len(dayOfWeek) = 1 THEN (getDay(date) + 6) % 7 # dayOfWeek[1] ELSE TRUE
WeekdayDiffers(date, dayOfWeek) ==
  IF Len(dayOfWeek) = 1 THEN getDay(date) # dayOfWeek[1] ELSE TRUE

\* The body of both scanning loops: one day forward, one day backward.
ScanForward(date) == setDate(date, getDate(date) + 1)
ScanBackward(date) == setDate(date, getDate(date) - 1)

\* while (date.getDay() !== dayOfWeek) date.setDate(date.getDate() + 1)
RECURSIVE FirstOccurrence(_, _)
FirstOccurrence(date, dayOfWeek) ==
  IF WeekdayDiffers(date, dayOfWeek)
  THEN FirstOccurrence(ScanForward(date), dayOfWeek)
  ELSE date

\* while (lastDate.getDay() !== dayOfWeek) lastDate.setDate(lastDate.getDate() - 1)
RECURSIVE LastOccurrence(_, _)
LastOccurrence(lastDate, dayOfWeek) ==
  IF WeekdayDiffers(lastDate, dayOfWeek)
  THEN LastOccurrence(ScanBackward(lastDate), dayOfWeek)
  ELSE lastDate

\* if (date.getMonth() !== month - 1) throw
SameMonthCheck_Skipped(date, month) == TRUE
SameMonthCheck(date, month) == getMonth(date) = month - 1

\* new Date(year, month, 0): day 0 of the next month index.
LastDayOfMonth_NextMonthFirst(year, month) == NewDate(year, month, 1)
LastDayOfMonth(year, month) == NewDate(year, month, 0)

\* The last occurrence taken to be the fourth.
NthAfterScan_LastIsFourth(date, nthOccurrence, dayOfWeek, month, year) ==
  LET nth == setDate(date, getDate(date) + (IF nthOccurrence = -1 THEN 3 ELSE nthOccurrence - 1) * 7)
  IN IF SameMonthCheck(nth, month)
     THEN Some(nth)
     ELSE Throw("Error: No occurrence in month")

\* calculateNthDate from the exit of its first loop, date being occurrence #1.
NthAfterScan(date, nthOccurrence, dayOfWeek, month, year) ==
  IF nthOccurrence = -1
  THEN Some(LastOccurrence(LastDayOfMonth(year, month), dayOfWeek))
  ELSE LET nth == setDate(date, getDate(date) + (nthOccurrence - 1) * 7)
       IN IF SameMonthCheck(nth, month)
          THEN Some(nth)
          ELSE Throw("Error: No occurrence in month")

\* calculateNthDate(nthOccurrence, dayOfWeek, month, year), dayOfWeek a number.
calculateNthDate(nthOccurrence, dayOfWeek, month, year) ==
  NthAfterScan(FirstOccurrence(NewDate(year, month - 1, 1), Some(dayOfWeek)),
               nthOccurrence, Some(dayOfWeek), month, year)

(***************************************************************************)
(* calculateRelativeDate                                                   *)
(***************************************************************************)
\* const multiplier = direction === "before" ? -1 : 1
Multiplier_AlwaysForward(direction) == 1
Multiplier(direction) == IF direction = "before" THEN -1 ELSE 1

\* const result = new Date(baseDate): the object the setters act on is a new
\* one, not the argument.
ResultObject == "result"

\* calculateRelativeDate(baseDate, period, unit, direction): a new Date, or
\* the Error thrown for a unit outside the four cases.
calculateRelativeDate(baseDate, period, unit, direction) ==
  LET result == baseDate
      multiplier == Multiplier(direction)
  IN CASE unit = "days" ->
            Some(setDate(result, getDate(result) + period * multiplier))
       [] unit = "weeks" ->
            Some(setDate(result, getDate(result) + period * 7 * multiplier))
       [] unit = "months" ->
            Some(setMonth(result, getMonth(result) + period * multiplier))
       [] unit = "years" ->
            Some(setFullYear(result, getFullYear(result) + period * multiplier))
       [] OTHER -> Throw("Error: Invalid unit")

(***************************************************************************)
(* Events                                                                  *)
(***************************************************************************)
\* An Event with every optional field null.
BlankEvent ==
  [id |-> 0, createdAt |-> 0, title |-> "", dateType |-> "fixed",
   startDate |-> Null, endDate |-> Null,
   nthOccurrence |-> Null, dayOfWeek |-> Null, month |-> Null, baseYear |-> Null,
   relativePeriod |-> Null, relativeUnit |-> Null, relativeDirection |-> Null,
   relativeEventName |-> Null]

\* A startDate or endDate that is a Date object, and one that is a string
\* "YYYY-MM-DD" or "YYYY-MM-DDT00:00:00.000Z".
DateObject(t) == <<"Date", t>>
DateString(year, month, day) == <<"string", year, month, day>>

(***************************************************************************)
(* calculateEventDate, server (routes.ts) and client (date-utils)          *)
(***************************************************************************)
\* parseSimpleDate of the server: a string is split into year, month and day
\* and built in local time, a Date object is copied.
parseSimpleDate(dateValue) ==
  IF dateValue[1] = "string"
  THEN NewDate(dateValue[2], dateValue[3] - 1, dateValue[4])
  ELSE dateValue[2]

\* new Date(event.startDate) of the client: a string is parsed as UTC, a
\* Date object is copied.
NewDateOf(dateValue) ==
  IF dateValue[1] = "string"
  THEN ParseISO(dateValue[2], dateValue[3], dateValue[4])
  ELSE dateValue[2]

\* new Date(dateValue) is a new object, whichever object it copies; an
\* object is named <<>> when new and <<id, field>> when a stored event holds it.
NewObject_SameObject(owner) == owner
NewObject(owner) == <<>>

\* The object parseSimpleDate(event[field]) and new Date(event[field]) return.
FixedObject(event, field) ==
  IF event[field] = Null \/ event[field][1][1] = "string"
  THEN <<>>
  ELSE NewObject(<<event.id, field>>)

\* A collection of events after a setter has acted on the Date object owner.
Written(collection, owner, value) ==
  IF owner = <<>> \/ ~IsDate(value)
  THEN collection
  ELSE [j \in 1..Len(collection) |->
          IF collection[j].id = owner[1]
          THEN [collection[j] EXCEPT ![owner[2]] = Some(DateObject(value[1]))]
          ELSE collection[j]]

\* case "fixed"
ResolveFixed_NeedsEndDate(which, event) ==
  IF event.startDate = Null \/ event.endDate = Null
  THEN Null
  ELSE IF which = "server"
       THEN Some(parseSimpleDate(event.startDate[1]))
       ELSE Some(NewDateOf(event.startDate[1]))
ResolveFixed(which, event) ==
  IF event.startDate = Null
  THEN Null
  ELSE IF which = "server"
       THEN Some(parseSimpleDate(event.startDate[1]))
       ELSE Some(NewDateOf(event.startDate[1]))

\* case "nth": whether the guard lets the event through to calculateNthDate.
\* server: !nthOccurrence || dayOfWeek === null || dayOfWeek === undefined || !month
\* client: nthOccurrence && dayOfWeek !== undefined && month
NthFieldsPresent(which, event) ==
  /\ TruthyNum(event.nthOccurrence)
  /\ TruthyNum(event.month)
  /\ event.dayOfWeek # Undefined
  /\ which = "server" => event.dayOfWeek # Null

\* event.baseYear || new Date().getFullYear() (and one that reads the clock
\* alone)
BaseYearOf_ClockOnly(event) == clockYear
BaseYearOf(event) ==
  IF TruthyNum(event.baseYear) THEN event.baseYear[1] ELSE clockYear

\* case "relative": relativeEventName && relativePeriod && relativeUnit &&
\* relativeDirection
RelativeFieldsPresent(event) ==
  /\ TruthyStr(event.relativeEventName)
  /\ TruthyNum(event.relativePeriod)
  /\ TruthyStr(event.relativeUnit)
  /\ TruthyStr(event.relativeDirection)

\* allEvents.find(e => e.title === name): the index of the first match, or 0.
FindByTitle_FallBackToFirst(allEvents, name) ==
  LET hits == {i \in 1..Len(allEvents) : allEvents[i].title = name}
  IN IF hits = {} THEN 1 ELSE CHOOSE i \in hits : \A j \in hits : i <= j
FindByTitle_LastMatch(allEvents, name) ==
  LET hits == {i \in 1..Len(allEvents) : allEvents[i].title = name}
  IN IF hits = {} THEN 0 ELSE CHOOSE i \in hits : \A j \in hits : j <= i
FindByTitle(allEvents, name) ==
  LET hits == {i \in 1..Len(allEvents) : allEvents[i].title = name}
  IN IF hits = {} THEN 0 ELSE CHOOSE i \in hits : \A j \in hits : i <= j

\* try { ... } catch { return null }
CatchToNull(r) == IF IsThrow(r) THEN Null ELSE r

\* What a relative event's call does with the reference's date: the server
\* wraps calculateRelativeDate in try/catch, the client does not.
ApplyRelative_IgnoreOffset(which, event, referenceDate) == Some(referenceDate)
ApplyRelative(which, event, referenceDate) ==
  LET r == calculateRelativeDate(referenceDate, event.relativePeriod[1],
                                 event.relativeUnit[1], event.relativeDirection[1])
  IN IF which = "server" THEN CatchToNull(r) ELSE r

Pending == <<"pending", "">>

(***************************************************************************)
(* Bounds of the inputs                                                    *)
(***************************************************************************)
MinYear == 2020
\* The last year the schema and update-year admit.
MaxBaseYear == 2050
\* The units the schema and calculateRelativeDate admit.
ValidUnits == {"days", "weeks", "months", "years"}
MaxYear == 2025
Years == MinYear..MaxYear
\* Hours east of UTC: New York (standard time) and Tokyo.
TimeZones == {-5, 9}
Months == 1..12
Weekdays == 0..6
\* The occurrences the schema admits, the fifth, and one a year of weeks away.
NthValues == {-1, 1, 2, 3, 4, 5, 6, 53}

resolverVars ==
  <<events, resolver, started, stack, pc, scanDate, scanned, ret, retOwner,
    earlier>>
envVars == <<tzOffset, clockYear>>
nthVars == <<nthArgs, nthResult>>
relVars == <<relArgs, relResult, relBase>>
storeVars == <<store, exported, writes>>
routeVars == <<nextId, reply, yearOp, clearOp, importOp>>

(***************************************************************************)
(* calculateEventDate as a machine: one step per dispatch, loop iteration  *)
(* and return, so that a call that never returns is a run that never       *)
(* reaches "done".                                                         *)
(***************************************************************************)
\* The depth of recursion at which the engine throws RangeError, and the
\* number of loop iterations after which the model stops following a loop.
MaxEvents == 3
StackLimit == 5
MaxScan == 8

Titles == <<"A", "B", "C", "D", "E", "F">>
\* 2024-12-25 and 2024-12-27 as the schema's transform stores them.
Christmas == DateObject(ParseISO(2024, 12, 25))
ChristmasEnd == DateObject(ParseISO(2024, 12, 27))

Fixed(startDate, endDate) ==
  [BlankEvent EXCEPT !.dateType = "fixed", !.startDate = startDate,
                     !.endDate = endDate]
Nth(nthOccurrence, dayOfWeek, month, baseYear) ==
  [BlankEvent EXCEPT !.dateType = "nth", !.nthOccurrence = nthOccurrence,
                     !.dayOfWeek = dayOfWeek, !.month = month,
                     !.baseYear = baseYear]
Relative(period, unit, direction, name) ==
  [BlankEvent EXCEPT !.dateType = "relative", !.relativePeriod = period,
                     !.relativeUnit = unit, !.relativeDirection = direction,
                     !.relativeEventName = name]
\* The event stored at position i: ids, creation times and titles follow the
\* position.
Stored(i, body) == [body EXCEPT !.id = i, !.createdAt = i, !.title = Titles[i]]

\* Snapshots for the reference graph: every referenced title, a dangling
\* one, and the units.
GraphBodies ==
  {Fixed(Some(Christmas), Null), Fixed(Some(Christmas), Some(ChristmasEnd)),
   Fixed(Null, Null),
   Nth(Some(1), Some(2), Some(3), Some(2024)),
   Relative(Some(2), Some("fortnights"), Some("after"), Some("A")),
   Relative(Some(1), Some("months"), Some("after"), Some("A"))}
  \cup {Relative(Some(3), Some("days"), Some("before"), Some(name)) :
          name \in {"A", "B", "C", "X"}}

\* One event with every combination of present and missing fields of its
\* mode, next to an event titled "A".
FieldBodies ==
  {Fixed(s, e) : s \in {Null, Some(Christmas)}, e \in {Null, Some(ChristmasEnd)}}
  \cup {Nth(n, d, m, y) : n \in {Null, Some(0), Some(1), Some(5), Some(-1)},
                          d \in {Null, Undefined, Some(2)},
                          m \in {Null, Some(3)},
                          y \in {Null, Some(2024)}}
  \cup {Relative(q, u, d, n) : q \in {Null, Some(3)},
                               u \in {Null, Some("days"), Some("fortnights")},
                               d \in {Null, Some("before")},
                               n \in {Null, Some(""), Some("A"), Some("B"), Some("X")}}

EnvInit ==
  /\ tzOffset \in TimeZones
  /\ clockYear \in {MaxYear, MaxYear + 1}

GraphEnvInit ==
  /\ tzOffset \in TimeZones
  /\ clockYear = MaxYear

CallIdle ==
  /\ resolver = "server"
  /\ started = 0
  /\ stack = <<>>
  /\ pc = "idle"
  /\ scanDate = 0
  /\ scanned = 0
  /\ ret = Null
  /\ retOwner = <<>>
  /\ earlier = <<>>

\* No direct call of calculateNthDate is made.
NthIdle ==
  /\ nthArgs = [nthOccurrence |-> 1, dayOfWeek |-> 0, month |-> 1, year |-> MinYear]
  /\ nthResult = Pending

\* No direct call of calculateRelativeDate is made.
RelIdle ==
  /\ relArgs = [baseDate |-> 0, period |-> 1, unit |-> "days", direction |-> "after"]
  /\ relResult = Pending
  /\ relBase = 0

\* No export has been made.
NotExported ==
  [status |-> "none", vevents |-> <<>>, snapshot |-> <<>>, clock |-> 0,
   by |-> "server"]

\* The snapshot is the stored collection; nothing has been exported.
StoreIdle ==
  /\ store = events
  /\ exported = NotExported
  /\ writes = 0

\* No request of a route has been made: the locals of the three handlers that
\* await inside a loop, and the last response.
YearIdle ==
  [pc |-> "idle", newYear |-> Undefined, events |-> <<>>, at |-> 0,
   updatedEvents |-> <<>>, returns |-> <<>>, status |-> 0]
ClearIdle ==
  [pc |-> "idle", events |-> <<>>, at |-> 0, deletedCount |-> 0,
   returns |-> <<>>, status |-> 0]
ImportIdle ==
  [pc |-> "idle", records |-> <<>>, i |-> 0, total |-> 0, successful |-> 0,
   failed |-> 0, errors |-> <<>>, status |-> 0]
NoReply == [route |-> "none", id |-> 0, status |-> 0, body |-> Null]

RoutesIdle ==
  /\ nextId = Len(events) + 1
  /\ reply = NoReply
  /\ yearOp = YearIdle
  /\ clearOp = ClearIdle
  /\ importOp = ImportIdle

Init ==
  /\ GraphEnvInit
  /\ \E n \in 1..MaxEvents :
       \E bodies \in [1..n -> GraphBodies] :
         events = [i \in 1..n |-> Stored(i, bodies[i])]
  /\ CallIdle
  /\ NthIdle
  /\ RelIdle
  /\ StoreIdle
  /\ RoutesIdle

FieldsInit ==
  /\ EnvInit
  /\ \E anchor \in {Fixed(Some(Christmas), Null), Fixed(Null, Null)} :
       \E body \in FieldBodies :
         events = <<Stored(1, anchor), Stored(2, body)>>
  /\ CallIdle
  /\ NthIdle
  /\ RelIdle
  /\ StoreIdle
  /\ RoutesIdle

Top == stack[Len(stack)]

\* A call calculateEventDate(events[i], events) is made on the collection
\* as it is stored now.
BeginCall(i, which) ==
  /\ resolver' = which
  /\ started' = i
  /\ stack' = <<store[i]>>
  /\ pc' = "dispatch"
  /\ scanDate' = 0
  /\ scanned' = 0
  /\ ret' = Null
  /\ retOwner' = <<>>
  /\ events' = store
  /\ UNCHANGED <<envVars, nthVars, routeVars, relVars, storeVars>>

StartResolve(i, which) ==
  /\ pc = "idle"
  /\ BeginCall(i, which)
  /\ UNCHANGED earlier

\* The caller keeps the result and resolves another event of the collection.
ResolveAgain(i, which) ==
  /\ pc = "done"
  /\ i \in 1..Len(store)
  /\ earlier = <<>>
  /\ earlier' = <<started, ret, events, resolver>>
  /\ BeginCall(i, which)

\* return value: the innermost call hands ret to its caller.
Returning(value, owner) ==
  /\ ret' = value
  /\ retOwner' = owner
  /\ pc' = "return"
  /\ UNCHANGED <<stack, scanDate, scanned>>

DispatchFixed ==
  /\ pc = "dispatch"
  /\ Top.dateType = "fixed"
  /\ Returning(ResolveFixed(resolver, Top), FixedObject(Top, "startDate"))
  /\ UNCHANGED <<events, envVars, nthVars, routeVars, relVars, storeVars, resolver, started,
                 earlier>>

\* case "nth": return null, or enter calculateNthDate and its first loop.
DispatchNth ==
  /\ pc = "dispatch"
  /\ Top.dateType = "nth"
  /\ IF NthFieldsPresent(resolver, Top)
     THEN /\ scanDate' = NewDate(BaseYearOf(Top), Top.month[1] - 1, 1)
          /\ scanned' = 0
          /\ pc' = "scan"
          /\ UNCHANGED <<stack, ret, retOwner>>
     ELSE Returning(Null, <<>>)
  /\ UNCHANGED <<events, envVars, nthVars, routeVars, relVars, storeVars, resolver, started,
                 earlier>>

\* One iteration of while (date.getDay() !== dayOfWeek).
ScanStep ==
  /\ pc = "scan"
  /\ WeekdayDiffers(scanDate, Top.dayOfWeek)
  /\ scanned < MaxScan
  /\ scanDate' = ScanForward(scanDate)
  /\ scanned' = scanned + 1
  /\ UNCHANGED <<events, envVars, nthVars, routeVars, relVars, storeVars, resolver,
                 started, earlier, stack, pc, ret, retOwner>>

\* The loop exits; the rest of calculateNthDate runs inside try/catch.
ScanExit ==
  /\ pc = "scan"
  /\ ~WeekdayDiffers(scanDate, Top.dayOfWeek)
  /\ Returning(CatchToNull(NthAfterScan(scanDate, Top.nthOccurrence[1],
                                        Top.dayOfWeek, Top.month[1],
                                        BaseYearOf(Top))), <<>>)
  /\ UNCHANGED <<events, envVars, nthVars, routeVars, relVars, storeVars, resolver, started,
                 earlier>>

\* case "relative": return null, or call calculateEventDate on the reference.
DispatchRelative ==
  /\ pc = "dispatch"
  /\ Top.dateType = "relative"
  /\ LET ref == IF RelativeFieldsPresent(Top)
                THEN FindByTitle(events, Top.relativeEventName[1])
                ELSE 0
     IN IF ref = 0
        THEN Returning(Null, <<>>)
        ELSE IF Len(stack) >= StackLimit
             THEN Returning(Throw("RangeError: Maximum call stack size exceeded"), <<>>)
             ELSE /\ stack' = Append(stack, events[ref])
                  /\ UNCHANGED <<pc, ret, retOwner, scanDate, scanned>>
  /\ UNCHANGED <<events, envVars, nthVars, routeVars, relVars, storeVars, resolver, started,
                 earlier>>

\* The innermost call returns to the relative event's call that made it:
\* an exception passes through, null gives null, a date is offset.
ReturnToCaller ==
  /\ pc = "return"
  /\ Len(stack) > 1
  /\ stack' = SubSeq(stack, 1, Len(stack) - 1)
  /\ LET value == IF IsThrow(ret) THEN ret
                  ELSE IF ret = Null THEN Null
                  ELSE ApplyRelative(resolver, stack[Len(stack) - 1], ret[1])
         \* the object calculateRelativeDate's setters acted on
         target == IF IsDate(ret) /\ ResultObject = "baseDate" THEN retOwner ELSE <<>>
     IN /\ ret' = value
        /\ retOwner' = target
        /\ events' = Written(events, target, value)
        /\ store' = Written(store, target, value)
  /\ UNCHANGED <<envVars, nthVars, routeVars, relVars, exported, writes, resolver, started,
                 earlier, pc, scanDate, scanned>>

\* The top-level call returns (or throws) to its caller.
ReturnToTop ==
  /\ pc = "return"
  /\ Len(stack) = 1
  /\ stack' = <<>>
  /\ pc' = "done"
  /\ UNCHANGED <<events, envVars, nthVars, routeVars, relVars, storeVars, resolver,
                 started, earlier, ret, retOwner, scanDate, scanned>>

Resolvers == {"server", "client"}

Step ==
  \/ DispatchFixed
  \/ DispatchNth
  \/ ScanStep
  \/ ScanExit
  \/ DispatchRelative
  \/ ReturnToCaller
  \/ ReturnToTop

Next ==
  \/ \E i \in 1..Len(events) : \E which \in Resolvers : StartResolve(i, which)
  \/ Step

FieldsNext ==
  \/ Next
  \/ \E i \in 1..Len(events) : \E which \in Resolvers : ResolveAgain(i, which)

Spec == Init /\ [][Next]_vars
SpecFields == FieldsInit /\ [][FieldsNext]_vars

(***************************************************************************)
(* calculateEventDate as the function the exports call, and the exports    *)
(***************************************************************************)
\* A call that never returns: the client's weekday loop with dayOfWeek null.
Diverges == <<"diverges", "">>
\* Control does not come back with a value: an exception or divergence.
Escapes(r) == Len(r) = 2

\* calculateEventDate(event, allEvents) of resolver which, running at the
\* given depth of the call stack.
RECURSIVE calculateEventDate(_, _, _, _)
calculateEventDate(which, allEvents, event, depth) ==
  CASE event.dateType = "fixed" -> ResolveFixed(which, event)
    [] event.dateType = "nth" ->
         IF ~NthFieldsPresent(which, event) THEN Null
         ELSE IF event.dayOfWeek = Null THEN Diverges
         ELSE CatchToNull(calculateNthDate(event.nthOccurrence[1],
                                           event.dayOfWeek[1], event.month[1],
                                           BaseYearOf(event)))
    [] event.dateType = "relative" ->
         LET ref == IF RelativeFieldsPresent(event)
                    THEN FindByTitle(allEvents, event.relativeEventName[1])
                    ELSE 0
         IN IF ref = 0 THEN Null
            ELSE IF depth >= StackLimit
                 THEN Throw("RangeError: Maximum call stack size exceeded")
                 ELSE LET referenceDate ==
                            calculateEventDate(which, allEvents, allEvents[ref],
                                               depth + 1)
                      IN IF Escapes(referenceDate) THEN referenceDate
                         ELSE IF referenceDate = Null THEN Null
                         ELSE ApplyRelative(which, event, referenceDate[1])

\* formatDateForAllDay / formatDate: the digits YYYYMMDD of the local date.
FormatDate(t) == getFullYear(t) * 10000 + (getMonth(t) + 1) * 100 + getDate(t)

\* The fixed branch of both exports: eventStart and eventEnd, or null when
\* the event is skipped.
FixedDates(event) ==
  IF event.startDate = Null
  THEN Null
  ELSE LET eventStart == parseSimpleDate(event.startDate[1])
           eventEnd == IF event.endDate # Null
                       THEN LET end == parseSimpleDate(event.endDate[1])
                            IN setDate(end, getDate(end) + 1)
                       ELSE setDate(eventStart, getDate(eventStart) + 1)
       IN Some([start |-> eventStart, end |-> eventEnd])

\* eventEnd = new Date(eventStart); eventEnd.setDate(eventStart.getDate() + 1)
SingleDay(calculatedDate) ==
  IF IsDate(calculatedDate)
  THEN Some([start |-> calculatedDate[1],
             end |-> setDate(calculatedDate[1], getDate(calculatedDate[1]) + 1)])
  ELSE calculatedDate

\* One pass of the export loop: the dates of the event, null when the loop
\* continues without writing it, or the exception or divergence that ends it.
EventDates(which, allEvents, event) ==
  IF event.dateType = "fixed" THEN FixedDates(event)
  ELSE IF which = "server" /\ event.dateType = "nth"
       THEN IF NthFieldsPresent("server", event)
            THEN SingleDay(CatchToNull(
                   calculateNthDate(event.nthOccurrence[1], event.dayOfWeek[1],
                                    event.month[1], BaseYearOf(event))))
            ELSE Null
       ELSE SingleDay(calculateEventDate(which, allEvents, event, 1))

\* The passes of the export loop over the snapshot, in order.
Passes(which, allEvents) ==
  [i \in 1..Len(allEvents) |-> EventDates(which, allEvents, allEvents[i])]

\* The lines of one VEVENT that carry the event and its dates.
VEvent(event, dates) ==
  [uid |-> event.id, dtstart |-> FormatDate(dates.start),
   dtend |-> FormatDate(dates.end), summary |-> event.title]

\* The VEVENTs of the first n events of the snapshot, in order.
RECURSIVE VEvents(_, _, _)
VEvents(allEvents, passes, n) ==
  IF n = 0 THEN <<>>
  ELSE IF IsDate(passes[n])
       THEN Append(VEvents(allEvents, passes, n - 1),
                   VEvent(allEvents[n], passes[n][1]))
       ELSE VEvents(allEvents, passes, n - 1)

\* The position of the first event whose pass does not come back, or 0.
FirstEscape(passes) ==
  IF \E i \in 1..Len(passes) : Escapes(passes[i])
  THEN CHOOSE i \in 1..Len(passes) :
         Escapes(passes[i]) /\ \A j \in 1..(i - 1) : ~Escapes(passes[j])
  ELSE 0

\* The outcome of an export: the VEVENTs written; the server answers 500
\* when the loop throws, generateICS throws or never returns.
ExportOutcome(which, allEvents, passes, stop) ==
  IF stop = 0
  THEN [status |-> "ok", vevents |-> VEvents(allEvents, passes, Len(allEvents))]
  ELSE [status |-> IF which = "server" THEN "500" ELSE passes[stop][1],
        vevents |-> <<>>]

\* The object eventEnd.setDate acts on in the fixed branch.
EndObject(event) ==
  IF event.endDate # Null
  THEN FixedObject(event, "endDate")
  ELSE NewObject(FixedObject(event, "startDate"))

\* The collection after the export loop has run over its first n events.
AfterExport(collection, passes, n) ==
  [j \in 1..Len(collection) |->
     IF j <= n /\ collection[j].dateType = "fixed" /\ collection[j].startDate # Null
     THEN Written(collection, EndObject(collection[j]), Some(passes[j][1].end))[j]
     ELSE collection[j]]

\* GET /api/events/export/ics (server) and generateICS over the fetched
\* events (client).  The export reads nothing of the resolver calls made
\* before it, so it is followed after at most one of them.
ExportICS(which) ==
  /\ pc \in {"idle", "done"}
  /\ earlier = <<>>
  /\ exported = NotExported
  /\ \E passes \in {Passes(which, store)} :
       \E stop \in {FirstEscape(passes)} :
         \E outcome \in {ExportOutcome(which, store, passes, stop)} :
           /\ exported' = [status |-> outcome.status, vevents |-> outcome.vevents,
                           snapshot |-> store, clock |-> clockYear, by |-> which]
           /\ store' = AfterExport(store, passes,
                                   IF stop = 0 THEN Len(store) ELSE stop - 1)
  /\ UNCHANGED <<writes, envVars, nthVars, routeVars, relVars, resolverVars>>

(***************************************************************************)
(* The stored collection: updates, deletions and the passing of time       *)
(* between calls                                                           *)
(***************************************************************************)
MaxWrites == 1

\* 2024-12-25 as the string the client holds; 2024-12-31 and 2025-01-31 as
\* the schema's transform stores them.
ChristmasString == DateString(2024, 12, 25)
NewYearsEve == DateObject(ParseISO(2024, 12, 31))
EndOfJanuary == DateObject(ParseISO(2025, 1, 31))

\* Stored collections of three events: a dated event, an event dated or
\* relative to the first, and an event relative to one of them.
StoreInit ==
  /\ GraphEnvInit
  /\ \E first \in {Fixed(Some(Christmas), Null), Fixed(Some(ChristmasString), Null),
                   Fixed(Some(NewYearsEve), Null),
                   Nth(Some(1), Some(2), Some(3), Some(2024)),
                   Nth(Some(-1), Some(2), Some(3), Null)} :
       \E second \in {Relative(Some(1), Some("months"), Some("after"), Some("A")),
                      Relative(Some(3), Some("days"), Some("before"), Some("A")),
                      Fixed(Some(Christmas), Some(ChristmasEnd))} :
         \E third \in {Relative(Some(3), Some("days"), Some("before"), Some("B")),
                       Relative(Some(2), Some("weeks"), Some("after"), Some("B")),
                       Relative(Some(3), Some("days"), Some("before"), Some("A"))} :
           events = <<Stored(1, first), Stored(2, second), Stored(3, third)>>
  /\ CallIdle
  /\ NthIdle
  /\ RelIdle
  /\ StoreIdle
  /\ RoutesIdle

\* What a PATCH may carry: a new title, or a new startDate.
UpdateData ==
  {[title |-> "Z"], [title |-> "A"], [title |-> "B"],
   [startDate |-> Some(EndOfJanuary)]}

\* { ...existingEvent, ...updateData }
Merged(existingEvent, updateData) ==
  [k \in DOMAIN existingEvent |->
     IF k \in DOMAIN updateData THEN updateData[k] ELSE existingEvent[k]]

\* No resolver call and no export is running.
Quiet == pc \in {"idle", "done"} /\ exported = NotExported

\* MemStorage.updateEvent(id, updateData)
UpdateEvent(id, updateData) ==
  /\ Quiet
  /\ writes < MaxWrites
  /\ \E j \in 1..Len(store) :
       /\ store[j].id = id
       /\ store' = [store EXCEPT ![j] = Merged(store[j], updateData)]
  /\ writes' = writes + 1
  /\ UNCHANGED <<exported, envVars, nthVars, routeVars, relVars, resolverVars>>

\* MemStorage.deleteEvent(id) (and one that would delete the dependents too)
DeleteEvent_AlsoDependents(id) ==
  /\ Quiet
  /\ writes < MaxWrites
  /\ \E j \in 1..Len(store) : store[j].id = id
  /\ store' = SelectSeq(store, LAMBDA e :
                 /\ e.id # id
                 /\ \A j \in 1..Len(store) :
                      store[j].id = id => e.relativeEventName # Some(store[j].title))
  /\ writes' = writes + 1
  /\ UNCHANGED <<exported, envVars, nthVars, routeVars, relVars, resolverVars>>
DeleteEvent(id) ==
  /\ Quiet
  /\ writes < MaxWrites
  /\ \E j \in 1..Len(store) : store[j].id = id
  /\ store' = SelectSeq(store, LAMBDA e : e.id # id)
  /\ writes' = writes + 1
  /\ UNCHANGED <<exported, envVars, nthVars, routeVars, relVars, resolverVars>>

\* The wall clock passes into the next year.
ClockTick ==
  /\ Quiet
  /\ clockYear <= MaxYear
  /\ clockYear' = clockYear + 1
  /\ UNCHANGED <<tzOffset, nthVars, routeVars, relVars, storeVars, resolverVars>>

StoreNext ==
  \/ \E i \in 1..Len(store) : \E which \in Resolvers :
       exported = NotExported /\ StartResolve(i, which)
  \/ exported = NotExported /\ ResolveAgain(started, resolver)
  \/ Step
  \/ \E i \in 1..3 : \E updateData \in UpdateData : UpdateEvent(i, updateData)
  \/ \E i \in 1..3 : DeleteEvent(i)
  \/ ClockTick
  \/ \E which \in Resolvers : ExportICS(which)

SpecStore == StoreInit /\ [][StoreNext]_vars

(***************************************************************************)
(* The exports over the snapshots of the reference graph                   *)
(***************************************************************************)
ExportNext == \E which \in Resolvers : ExportICS(which)

SpecExport == Init /\ [][ExportNext]_vars

(***************************************************************************)
(* MemStorage: each method runs to its end without yielding                *)
(***************************************************************************)
\* getAllEvents(): the values of the map sorted by createdAt, which is the
\* order the model keeps the collection in.
getAllEvents(collection) == collection

Stores(collection, id) == \E j \in 1..Len(collection) : collection[j].id = id
Position(collection, id) == CHOOSE j \in 1..Len(collection) : collection[j].id = id

\* getEvent(id): this.events.get(id)
getEvent(collection, id) ==
  IF Stores(collection, id) THEN Some(collection[Position(collection, id)])
  ELSE Undefined

\* createEvent(insertEvent), id being the randomUUID() and the creation time.
createEvent(collection, insertEvent, id) ==
  LET event == [insertEvent EXCEPT !.id = id, !.createdAt = id]
  IN [events |-> Append(collection, event), returned |-> Some(event)]

\* updateEvent(id, updateData) (and one that stores updateData alone)
updateEvent_WithoutExisting(collection, id, updateData) ==
  IF Stores(collection, id)
  THEN LET updatedEvent == Merged(BlankEvent, updateData)
       IN [events |-> [collection EXCEPT ![Position(collection, id)] = updatedEvent],
           returned |-> Some(updatedEvent)]
  ELSE [events |-> collection, returned |-> Undefined]
updateEvent(collection, id, updateData) ==
  IF Stores(collection, id)
  THEN LET updatedEvent == Merged(collection[Position(collection, id)], updateData)
       IN [events |-> [collection EXCEPT ![Position(collection, id)] = updatedEvent],
           returned |-> Some(updatedEvent)]
  ELSE [events |-> collection, returned |-> Undefined]

\* deleteEvent(id): this.events.delete(id) (and one that deletes the event
\* stored first when the id is not stored)
deleteEvent_FirstWhenMissing(collection, id) ==
  IF Stores(collection, id) \/ collection = <<>>
  THEN [events |-> SelectSeq(collection, LAMBDA e : e.id # id),
        returned |-> Stores(collection, id)]
  ELSE [events |-> Tail(collection), returned |-> FALSE]
deleteEvent(collection, id) ==
  [events |-> SelectSeq(collection, LAMBDA e : e.id # id),
   returned |-> Stores(collection, id)]

(***************************************************************************)
(* insertEventSchema                                                       *)
(***************************************************************************)
IsNumber(x) == Len(x) = 1
\* z.number().min(lo).max(hi).nullable().optional()
NumberWithin(x, lo, hi) ==
  x \in {Null, Undefined} \/ (IsNumber(x) /\ x[1] >= lo /\ x[1] <= hi)
\* z.enum(values).nullable().optional()
EnumOf(x, values) == x \in {Null, Undefined} \/ (IsNumber(x) /\ x[1] \in values)

\* insertEventSchema.parse(eventData) does not throw a ZodError.
SchemaAccepts(eventData) ==
  /\ eventData.title # ""
  /\ eventData.dateType \in {"fixed", "nth", "relative"}
  /\ NumberWithin(eventData.nthOccurrence, -1, 4)
  /\ NumberWithin(eventData.dayOfWeek, 0, 6)
  /\ NumberWithin(eventData.month, 1, 12)
  /\ NumberWithin(eventData.baseYear, MinYear, MaxBaseYear)
  /\ eventData.relativePeriod \in {Null, Undefined}
       \/ (IsNumber(eventData.relativePeriod) /\ eventData.relativePeriod[1] > 0)
  /\ EnumOf(eventData.relativeUnit, ValidUnits)
  /\ EnumOf(eventData.relativeDirection, {"before", "after"})

\* The transform of startDate and endDate: a non-empty string becomes
\* new Date(val), a Date stays, anything else becomes null.
TransformDate(val) ==
  IF val \in {Null, Undefined} THEN Null
  ELSE IF val[1][1] = "string"
       THEN Some(DateObject(ParseISO(val[1][2], val[1][3], val[1][4])))
       ELSE val

\* What insertEventSchema.parse returns for data it accepts.
SchemaParse(eventData) ==
  [eventData EXCEPT !.startDate = TransformDate(eventData.startDate),
                    !.endDate = TransformDate(eventData.endDate)]

(***************************************************************************)
(* The routes that answer after one storage call                           *)
(***************************************************************************)
\* How many requests that write, and how many ids, the model follows.
MaxRequests == 2
MaxIds == 4

\* GET /api/events/:id
GetById(id) ==
  /\ reply' = [route |-> "GET", id |-> id,
               status |-> IF getEvent(store, id) = Undefined THEN 404 ELSE 200,
               body |-> IF getEvent(store, id) = Undefined THEN Null
                        ELSE getEvent(store, id)]
  /\ UNCHANGED <<nextId, yearOp, clearOp, importOp>>
  /\ UNCHANGED <<envVars, nthVars, relVars, storeVars, resolverVars>>

\* POST /api/events
PostEvent(eventData) ==
  /\ nextId <= MaxIds
  /\ IF SchemaAccepts(eventData)
     THEN \E created \in {createEvent(store, SchemaParse(eventData), nextId)} :
            /\ store' = created.events
            /\ nextId' = nextId + 1
            /\ reply' = [route |-> "POST", id |-> nextId, status |-> 201,
                         body |-> created.returned]
     ELSE /\ reply' = [route |-> "POST", id |-> 0, status |-> 400, body |-> Null]
          /\ UNCHANGED <<store, nextId>>
  /\ UNCHANGED <<exported, writes, yearOp, clearOp, importOp>>
  /\ UNCHANGED <<envVars, nthVars, relVars, resolverVars>>

\* PATCH /api/events/:id
PatchById(id, updateData) ==
  /\ writes < MaxRequests
  /\ \E updated \in {updateEvent(store, id, updateData)} :
       /\ store' = updated.events
       /\ reply' = [route |-> "PATCH", id |-> id,
                    status |-> IF updated.returned = Undefined THEN 404 ELSE 200,
                    body |-> IF updated.returned = Undefined THEN Null
                             ELSE updated.returned]
  /\ writes' = writes + 1
  /\ UNCHANGED <<exported, nextId, yearOp, clearOp, importOp>>
  /\ UNCHANGED <<envVars, nthVars, relVars, resolverVars>>

\* DELETE /api/events/:id
DeleteById(id) ==
  /\ writes < MaxRequests
  /\ \E deleted \in {deleteEvent(store, id)} :
       /\ store' = deleted.events
       /\ reply' = [route |-> "DELETE", id |-> id,
                    status |-> IF deleted.returned THEN 204 ELSE 404,
                    body |-> Null]
  /\ writes' = writes + 1
  /\ UNCHANGED <<exported, nextId, yearOp, clearOp, importOp>>
  /\ UNCHANGED <<envVars, nthVars, relVars, resolverVars>>

(***************************************************************************)
(* POST /api/events/update-year: one step from each await to the next      *)
(***************************************************************************)
\* !newYear || typeof newYear !== 'number' || newYear < 2020 || newYear > 2050
\* (and one that refuses the two ends of the range)
YearRejected_EndsRefused(newYear) ==
  IF IsNumber(newYear)
  THEN newYear[1] = 0 \/ newYear[1] <= MinYear \/ newYear[1] >= MaxBaseYear
  ELSE TRUE
YearRejected(newYear) ==
  IF IsNumber(newYear)
  THEN newYear[1] = 0 \/ newYear[1] < MinYear \/ newYear[1] > MaxBaseYear
  ELSE TRUE

\* The first position from the given one on whose event has dateType 'nth',
\* or 0.
NextNth(snapshot, from) ==
  IF \E j \in from..Len(snapshot) : snapshot[j].dateType = "nth"
  THEN CHOOSE j \in from..Len(snapshot) :
         /\ snapshot[j].dateType = "nth"
         /\ \A k \in from..(j - 1) : snapshot[k].dateType # "nth"
  ELSE 0

\* The request arrives: the year is checked and getAllEvents() is called.
YearRequest(newYear) ==
  /\ yearOp.pc = "idle"
  /\ yearOp' = IF YearRejected(newYear)
               THEN [YearIdle EXCEPT !.pc = "responded", !.newYear = newYear,
                                     !.status = 400]
               ELSE [YearIdle EXCEPT !.pc = "awaitEvents", !.newYear = newYear,
                                     !.events = getAllEvents(store)]
  /\ UNCHANGED <<nextId, reply, clearOp, importOp>>
  /\ UNCHANGED <<envVars, nthVars, relVars, storeVars, resolverVars>>

\* updatedEvents.push({ ...event, baseYear: newYear }) after the await of
\* updateEvent, whatever it returned.
YearPushed ==
  IF yearOp.pc = "awaitUpdate"
  THEN Append(yearOp.updatedEvents,
              Merged(yearOp.events[yearOp.at], [baseYear |-> yearOp.newYear]))
  ELSE yearOp.updatedEvents

\* The handler runs on from an await: to the updateEvent of the next nth
\* event of its snapshot, or to its response.
YearResume ==
  /\ yearOp.pc \in {"awaitEvents", "awaitUpdate"}
  /\ \E next \in {NextNth(yearOp.events, yearOp.at + 1)} :
       IF next = 0
       THEN /\ yearOp' = [yearOp EXCEPT !.pc = "responded", !.status = 200,
                                        !.at = Len(yearOp.events) + 1,
                                        !.updatedEvents = YearPushed]
            /\ UNCHANGED store
       ELSE \E updated \in {updateEvent(store, yearOp.events[next].id,
                                        [baseYear |-> yearOp.newYear])} :
              /\ store' = updated.events
              /\ yearOp' = [yearOp EXCEPT !.pc = "awaitUpdate", !.at = next,
                                          !.updatedEvents = YearPushed,
                                          !.returns = Append(@, updated.returned)]
  /\ UNCHANGED <<exported, writes, nextId, reply, clearOp, importOp>>
  /\ UNCHANGED <<envVars, nthVars, relVars, resolverVars>>

\* updatedCount: updatedEvents.length
UpdatedCount == Len(yearOp.updatedEvents)

(***************************************************************************)
(* DELETE /api/events: one step from each await to the next                *)
(***************************************************************************)
\* if (deleted) deletedCount++ (and one that counts every pass)
Counted_EveryPass(deleted, deletedCount) == deletedCount + 1
Counted(deleted, deletedCount) ==
  IF deleted THEN deletedCount + 1 ELSE deletedCount

\* The request arrives: getAllEvents() is called.
ClearRequest ==
  /\ clearOp.pc = "idle"
  /\ clearOp' = [ClearIdle EXCEPT !.pc = "awaitEvents",
                                  !.events = getAllEvents(store)]
  /\ UNCHANGED <<nextId, reply, yearOp, importOp>>
  /\ UNCHANGED <<envVars, nthVars, relVars, storeVars, resolverVars>>

ClearCounted ==
  IF clearOp.pc = "awaitDelete"
  THEN Counted(clearOp.returns[Len(clearOp.returns)], clearOp.deletedCount)
  ELSE clearOp.deletedCount

\* The handler runs on from an await: to the deleteEvent of the next event
\* of its snapshot, or to its response.
ClearResume ==
  /\ clearOp.pc \in {"awaitEvents", "awaitDelete"}
  /\ IF clearOp.at = Len(clearOp.events)
     THEN /\ clearOp' = [clearOp EXCEPT !.pc = "responded", !.status = 200,
                                        !.deletedCount = ClearCounted]
          /\ UNCHANGED store
     ELSE \E deleted \in {deleteEvent(store, clearOp.events[clearOp.at + 1].id)} :
            /\ store' = deleted.events
            /\ clearOp' = [clearOp EXCEPT !.pc = "awaitDelete", !.at = @ + 1,
                                          !.deletedCount = ClearCounted,
                                          !.returns = Append(@, deleted.returned)]
  /\ UNCHANGED <<exported, writes, nextId, reply, yearOp, importOp>>
  /\ UNCHANGED <<envVars, nthVars, relVars, resolverVars>>

(***************************************************************************)
(* POST /api/events/import: one step from each await to the next           *)
(***************************************************************************)
MaxRows == 3

\* A parsed CSV record: its columns, Undefined where the column is empty.
BlankRecord ==
  [title |-> "", dateType |-> "", startDate |-> Undefined, endDate |-> Undefined,
   nthOccurrence |-> Undefined, dayOfWeek |-> Undefined, month |-> Undefined,
   baseYear |-> Undefined, relativePeriod |-> Undefined,
   relativeUnit |-> Undefined, relativeDirection |-> Undefined,
   relativeEventName |-> Undefined]

\* a || b
OrElse(a, b) == IF a = Undefined THEN b ELSE a

\* (...).toLowerCase() on the spellings a Date Type column is given.
ToLowerCase(s) ==
  CASE s = "Fixed" -> "fixed"
    [] s = "NTH" -> "nth"
    [] s = "Relative" -> "relative"
    [] OTHER -> s

\* The eventData built from a record; parseInt has been applied to the
\* numeric columns.
EventData(record) ==
  LET dateType == ToLowerCase(record.dateType)
      eventData == [BlankEvent EXCEPT !.title = record.title, !.dateType = dateType]
  IN CASE dateType = "fixed" ->
            [eventData EXCEPT !.startDate = OrElse(record.startDate, Null),
                              !.endDate = OrElse(record.endDate, Null)]
       [] dateType = "nth" ->
            [eventData EXCEPT
               !.nthOccurrence = OrElse(record.nthOccurrence, Some(1)),
               !.dayOfWeek = OrElse(record.dayOfWeek, Some(1)),
               !.month = OrElse(record.month, Some(1)),
               !.baseYear = OrElse(record.baseYear, Some(clockYear))]
       [] dateType = "relative" ->
            [eventData EXCEPT
               !.relativePeriod = OrElse(record.relativePeriod, Some(1)),
               !.relativeUnit = OrElse(record.relativeUnit, Some("days")),
               !.relativeDirection = OrElse(record.relativeDirection, Some("before")),
               !.relativeEventName = OrElse(record.relativeEventName, Some(""))]
       [] OTHER -> eventData

\* The first record from the given position on that validation accepts, or
\* the length of the records plus one.
RECURSIVE NextAccepted(_, _)
NextAccepted(records, from) ==
  IF from > Len(records) \/ SchemaAccepts(EventData(records[from]))
  THEN from
  ELSE NextAccepted(records, from + 1)

\* The loop from record number `from` to its next await or to its end: the
\* records that fail are counted and reported, the next one that passes is
\* created (and one for a loop that ends at the first record that fails).
ImportRun_StopAtFailure(op, from) ==
  \E next \in {NextAccepted(op.records, from)} :
    \E stop \in {IF next > from THEN Len(op.records) + 1 ELSE next} :
      \E counted \in {[op EXCEPT
                         !.i = stop,
                         !.failed = @ + (IF next > from THEN 1 ELSE 0),
                         !.errors = @ \o (IF next > from THEN <<from>> ELSE <<>>)]} :
        IF stop > Len(op.records)
        THEN /\ importOp' = [counted EXCEPT !.pc = "responded", !.status = 200]
             /\ UNCHANGED <<store, nextId>>
        ELSE /\ importOp' = [counted EXCEPT !.pc = "awaitCreate"]
             /\ store' = createEvent(store, SchemaParse(EventData(op.records[next])),
                                     nextId).events
             /\ nextId' = nextId + 1
ImportRun(op, from) ==
  \E next \in {NextAccepted(op.records, from)} :
    \E counted \in {[op EXCEPT
                       !.i = next,
                       !.failed = @ + (next - from),
                       !.errors = @ \o [k \in 1..(next - from) |-> from + k - 1]]} :
      IF next > Len(op.records)
      THEN /\ importOp' = [counted EXCEPT !.pc = "responded", !.status = 200]
           /\ UNCHANGED <<store, nextId>>
      ELSE /\ importOp' = [counted EXCEPT !.pc = "awaitCreate"]
           /\ store' = createEvent(store, SchemaParse(EventData(op.records[next])),
                                   nextId).events
           /\ nextId' = nextId + 1

\* The request arrives with its parsed records.
ImportRequest(records) ==
  /\ importOp.pc = "idle"
  /\ ImportRun([ImportIdle EXCEPT !.records = records, !.total = Len(records)], 1)
  /\ UNCHANGED <<exported, writes, reply, yearOp, clearOp>>
  /\ UNCHANGED <<envVars, nthVars, relVars, resolverVars>>

\* The handler runs on from the await of createEvent: results.successful++
\* and the rest of the loop.
ImportResume ==
  /\ importOp.pc = "awaitCreate"
  /\ ImportRun([importOp EXCEPT !.successful = @ + 1], importOp.i + 1)
  /\ UNCHANGED <<exported, writes, reply, yearOp, clearOp>>
  /\ UNCHANGED <<envVars, nthVars, relVars, resolverVars>>

(***************************************************************************)
(* The routes over stored collections the schema admits                    *)
(***************************************************************************)
\* Stored collections of three events: nth events with and without baseYear
\* and dayOfWeek, fixed events, and events relative to them.
RoutesInit ==
  /\ GraphEnvInit
  /\ \E first \in {Nth(Some(1), Some(2), Some(3), Some(2024)),
                   Nth(Some(-1), Some(4), Some(2), Null),
                   Fixed(Some(Christmas), Null)} :
       \E second \in {Relative(Some(1), Some("months"), Some("after"), Some("A")),
                      Nth(Some(4), Null, Some(3), Some(2024)),
                      Nth(Some(2), Some(0), Some(11), Some(2021))} :
         \E third \in {Relative(Some(3), Some("days"), Some("before"), Some("B")),
                       Relative(Some(2), Some("weeks"), Some("after"), Some("A")),
                       Fixed(Some(NewYearsEve), Some(EndOfJanuary))} :
           events = <<Stored(1, first), Stored(2, second), Stored(3, third)>>
  /\ CallIdle
  /\ NthIdle
  /\ RelIdle
  /\ StoreIdle
  /\ RoutesIdle

\* A JSON string whose digits spell n.
NumericString(n) == <<n, n>>

\* The newYear of a request body: absent, null, a string, and numbers
\* around and across the admitted range.
NewYears ==
  {Undefined, Null, NumericString(2025)}
  \cup {Some(y) : y \in {0} \cup ((MinYear - 1)..(MaxBaseYear + 1))}

\* update-year handled with no other request in its way.
YearNext ==
  \/ \E newYear \in NewYears : YearRequest(newYear)
  \/ YearResume

SpecYear == RoutesInit /\ [][YearNext]_vars

\* The ids a request may name: the stored ones and one never stored.
RequestIds == 1..(MaxIds + 1)

\* The bodies a POST may carry: one the schema accepts and one it refuses.
PostBodies ==
  {[Fixed(Some(ChristmasString), Null) EXCEPT !.title = "N"],
   [Nth(Some(1), Some(2), Some(3), Some(2024)) EXCEPT !.title = "N"],
   [Nth(Some(5), Some(2), Some(3), Some(2024)) EXCEPT !.title = "N"]}

\* The routes that answer after one storage call, in any order.
CrudNext ==
  \/ \E id \in RequestIds : GetById(id)
  \/ \E eventData \in PostBodies : PostEvent(eventData)
  \/ \E id \in RequestIds : \E updateData \in UpdateData : PatchById(id, updateData)
  \/ \E id \in RequestIds : DeleteById(id)

SpecCrud == RoutesInit /\ [][CrudNext]_vars

\* The year of the update-year requests that race with other requests.
RaceYear == Some(2030)

\* Stored collections of two events.
RaceInit ==
  /\ GraphEnvInit
  /\ \E first \in {Nth(Some(1), Some(2), Some(3), Some(2024)),
                   Fixed(Some(Christmas), Null)} :
       \E second \in {Relative(Some(1), Some("months"), Some("after"), Some("A")),
                      Nth(Some(-1), Some(4), Some(2), Null)} :
         events = <<Stored(1, first), Stored(2, second)>>
  /\ CallIdle
  /\ NthIdle
  /\ RelIdle
  /\ StoreIdle
  /\ RoutesIdle

\* The requests that race with a handler: a rename or a deletion of a
\* stored event, and a creation.
RaceIds == 1..2
RaceBody == [Nth(Some(1), Some(2), Some(3), Some(2024)) EXCEPT !.title = "N"]
Racing ==
  \/ PostEvent(RaceBody)
  \/ \E id \in RaceIds : PatchById(id, [title |-> "Z"])
  \/ \E id \in RaceIds : DeleteById(id)

\* update-year, each step of it interleaved with the racing requests.
YearRaceNext ==
  \/ YearRequest(RaceYear)
  \/ YearResume
  \/ Racing

SpecYearRace == RaceInit /\ [][YearRaceNext]_vars

\* clear-all, each step of it interleaved with the racing requests.
ClearRaceNext ==
  \/ ClearRequest
  \/ ClearResume
  \/ Racing

SpecClearRace == RaceInit /\ [][ClearRaceNext]_vars

\* The records of an uploaded CSV: rows that pass validation and rows that
\* fail it.
Records ==
  {[BlankRecord EXCEPT !.title = "X", !.dateType = "Fixed",
                       !.startDate = Some(ChristmasString)],
   [BlankRecord EXCEPT !.title = "Y", !.dateType = "nth"],
   [BlankRecord EXCEPT !.title = "Y", !.dateType = "nth",
                       !.nthOccurrence = Some(5)],
   [BlankRecord EXCEPT !.title = "", !.dateType = "fixed"],
   [BlankRecord EXCEPT !.title = "W", !.dateType = "weekly"],
   [BlankRecord EXCEPT !.title = "R", !.dateType = "relative",
                       !.relativeUnit = Some("fortnights"),
                       !.relativeEventName = Some("X")]}

ImportInit ==
  /\ EnvInit
  /\ events \in {<<>>, <<Stored(1, Fixed(Some(Christmas), Null))>>}
  /\ CallIdle
  /\ NthIdle
  /\ RelIdle
  /\ StoreIdle
  /\ RoutesIdle

ImportNext ==
  \/ \E n \in 0..MaxRows : \E records \in [1..n -> Records] : ImportRequest(records)
  \/ ImportResume

SpecImport == ImportInit /\ [][ImportNext]_vars

(***************************************************************************)
(* calculateNthDate as a pure function of its arguments                    *)
(***************************************************************************)
NthInit ==
  /\ tzOffset \in TimeZones
  /\ clockYear = MaxYear
  /\ events = <<>>
  /\ CallIdle
  /\ nthArgs \in [nthOccurrence : NthValues, dayOfWeek : Weekdays,
                  month : Months, year : Years]
  /\ nthResult = Pending
  /\ RelIdle
  /\ StoreIdle
  /\ RoutesIdle

CallNthDate ==
  /\ nthResult = Pending
  /\ nthResult' = calculateNthDate(nthArgs.nthOccurrence, nthArgs.dayOfWeek,
                                   nthArgs.month, nthArgs.year)
  /\ UNCHANGED <<nthArgs, envVars, routeVars, resolverVars, relVars, storeVars>>

NthNext == CallNthDate

SpecNth == NthInit /\ [][NthNext]_vars

(***************************************************************************)
(* calculateRelativeDate as a pure function of its arguments               *)
(***************************************************************************)
MaxPeriod == 12
\* Civil dates at the ends of months and years, and the one of the examples.
BaseDates ==
  {<<2024, 12, 25>>, <<2024, 1, 31>>, <<2024, 2, 29>>, <<2024, 3, 31>>,
   <<2023, 12, 31>>, <<2025, 1, 1>>, <<2024, 3, 1>>}
Units == {"days", "weeks", "months", "years", "fortnights"}
Directions == {"before", "after"}

\* The base is a Date at UTC midnight (a stored startDate) or at local
\* midnight (a date built from year, month and day).
RelInit ==
  /\ tzOffset \in TimeZones
  /\ clockYear = MaxYear
  /\ events = <<>>
  /\ CallIdle
  /\ NthIdle
  /\ StoreIdle
  /\ RoutesIdle
  /\ \E c \in BaseDates : \E t \in {ParseISO(c[1], c[2], c[3]), NewDate(c[1], c[2] - 1, c[3])} :
       \E q \in 1..MaxPeriod : \E u \in Units : \E d \in Directions :
         /\ relArgs = [baseDate |-> t, period |-> q, unit |-> u, direction |-> d]
         /\ relBase = t
  /\ relResult = Pending

CallRelativeDate ==
  /\ relResult = Pending
  /\ LET r == calculateRelativeDate(relArgs.baseDate, relArgs.period,
                                    relArgs.unit, relArgs.direction)
     IN /\ relResult' = r
        /\ relBase' = IF ResultObject = "baseDate" /\ IsDate(r) THEN r[1] ELSE relBase
  /\ UNCHANGED <<relArgs, envVars, resolverVars, nthVars, routeVars, storeVars>>

RelNext == CallRelativeDate

SpecRel == RelInit /\ [][RelNext]_vars

(***************************************************************************)
(* The calendar, stated independently of the Date model: Zeller's          *)
(* congruence for the weekday and the Gregorian month lengths.             *)
(***************************************************************************)
IsLeapYear(y) == (y % 4 = 0 /\ y % 100 # 0) \/ y % 400 = 0
DaysInMonth(y, m) ==
  CASE m \in {4, 6, 9, 11} -> 30
    [] m = 2 -> IF IsLeapYear(y) THEN 29 ELSE 28
    [] OTHER -> 31
\* 0 = Sunday .. 6 = Saturday.
ZellerDay(y, m, d) ==
  LET mm == IF m <= 2 THEN m + 12 ELSE m
      yy == IF m <= 2 THEN y - 1 ELSE y
      k == yy % 100
      j == yy \div 100
      h == (d + (13 * (mm + 1)) \div 5 + k + k \div 4 + j \div 4 + 5 * j) % 7
  IN (h + 6) % 7
\* The days of month m of year y that fall on weekday w.
DaysOnWeekday(y, m, w) == {d \in 1..DaysInMonth(y, m) : ZellerDay(y, m, d) = w}
MinOf(S) == CHOOSE d \in S : \A e \in S : d <= e
MaxOf(S) == CHOOSE d \in S : \A e \in S : e <= d
\* The civil date of a result that is a Date.
CivilOf(r) == CivilFromDays(LocalDay(r[1]))

NthCalled == nthResult # Pending

\* C7: with nthOccurrence = 1, calculateNthDate returns the earliest date of
\* the requested month and year that falls on dayOfWeek, a day in 1..7.
C7_FirstOccurrenceIsEarliest ==
  (NthCalled /\ nthArgs.nthOccurrence = 1) =>
    LET first == MinOf(DaysOnWeekday(nthArgs.year, nthArgs.month, nthArgs.dayOfWeek))
    IN /\ IsDate(nthResult)
       /\ CivilOf(nthResult) = <<nthArgs.year, nthArgs.month, first>>
       /\ first \in 1..7
       /\ ZellerDay(nthArgs.year, nthArgs.month, CivilOf(nthResult)[3]) = nthArgs.dayOfWeek

\* March 2024, Tuesday, first occurrence: 2024-03-05.
C7_Witness ==
  /\ nthArgs = [nthOccurrence |-> 1, dayOfWeek |-> 2, month |-> 3, year |-> 2024]
  /\ nthResult # Pending
  /\ CivilOf(nthResult) = <<2024, 3, 5>>

\* C8: with nthOccurrence = -1, calculateNthDate returns the latest date of
\* the requested month and year that falls on dayOfWeek; it lies in the last
\* seven days of the month.
C8_LastOccurrenceIsLatest ==
  (NthCalled /\ nthArgs.nthOccurrence = -1) =>
    LET last == MaxOf(DaysOnWeekday(nthArgs.year, nthArgs.month, nthArgs.dayOfWeek))
    IN /\ IsDate(nthResult)
       /\ CivilOf(nthResult) = <<nthArgs.year, nthArgs.month, last>>
       /\ last > DaysInMonth(nthArgs.year, nthArgs.month) - 7
       /\ \A d \in (last + 1)..DaysInMonth(nthArgs.year, nthArgs.month) :
            ZellerDay(nthArgs.year, nthArgs.month, d) # nthArgs.dayOfWeek

\* February 2024 (a leap year), Thursday, last occurrence: 2024-02-29.
C8_Witness ==
  /\ nthArgs = [nthOccurrence |-> -1, dayOfWeek |-> 4, month |-> 2, year |-> 2024]
  /\ nthResult # Pending
  /\ CivilOf(nthResult) = <<2024, 2, 29>>

\* The day of the month on which occurrence number n would fall.
NthDay(a) ==
  MinOf(DaysOnWeekday(a.year, a.month, a.dayOfWeek)) + (a.nthOccurrence - 1) * 7

RECURSIVE DaysBeforeYear(_)
DaysBeforeYear(y) ==
  IF y = 2000 THEN 0
  ELSE IF y > 2000
       THEN DaysBeforeYear(y - 1) + (IF IsLeapYear(y - 1) THEN 366 ELSE 365)
       ELSE DaysBeforeYear(y + 1) - (IF IsLeapYear(y) THEN 366 ELSE 365)
RECURSIVE DaysBeforeMonth(_, _)
DaysBeforeMonth(y, m) ==
  IF m = 1 THEN 0 ELSE DaysBeforeMonth(y, m - 1) + DaysInMonth(y, m - 1)
OrdinalDay(c) == DaysBeforeYear(c[1]) + DaysBeforeMonth(c[1], c[2]) + c[3]

RelCalled == relResult # Pending
\* The calendar date of the base the call was given.
BaseCivil == CivilFromDays(LocalDay(relArgs.baseDate))
Sign == IF relArgs.direction = "before" THEN -1 ELSE 1

\* C12: for unit days or weeks, calculateRelativeDate returns the date that
\* lies period (times 7 for weeks) days before or after the base, across month
\* and year ends, and leaves the Date object passed as base unchanged.
C12_DaysAndWeeksShift ==
  (RelCalled /\ relArgs.unit \in {"days", "weeks"}) =>
    /\ IsDate(relResult)
    /\ OrdinalDay(CivilOf(relResult)) =
         OrdinalDay(BaseCivil)
           + Sign * relArgs.period * (IF relArgs.unit = "weeks" THEN 7 ELSE 1)
    /\ relBase = relArgs.baseDate

\* 2024-12-25, 3 days before: 2024-12-22.
C12_Witness ==
  /\ RelCalled
  /\ BaseCivil = <<2024, 12, 25>>
  /\ relArgs.period = 3 /\ relArgs.unit = "days" /\ relArgs.direction = "before"
  /\ CivilOf(relResult) = <<2024, 12, 22>>
  /\ relBase = relArgs.baseDate

\* The month k months away from the month of civil date c: <<year, month>>.
MonthAway(c, k) ==
  LET index == c[1] * 12 + (c[2] - 1) + k
  IN <<index \div 12, (index % 12) + 1>>
\* The same day of the month k months away, or, when that month is too
\* short, the day of the following month the excess runs into.
SameDayOrOverflow(c, k) ==
  LET target == MonthAway(c, k)
      length == DaysInMonth(target[1], target[2])
      following == MonthAway(<<target[1], target[2], 1>>, 1)
  IN IF c[3] <= length
     THEN <<target[1], target[2], c[3]>>
     ELSE <<following[1], following[2], c[3] - length>>

\* C13: for unit months (years), calculateRelativeDate returns the same day
\* of the month period months (years) before or after the base when that day
\* exists, and otherwise a date in the following month; it never fails.
C13_MonthsAndYearsShift ==
  (RelCalled /\ relArgs.unit \in {"months", "years"}) =>
    /\ IsDate(relResult)
    /\ CivilOf(relResult) =
         SameDayOrOverflow(BaseCivil,
           Sign * relArgs.period * (IF relArgs.unit = "years" THEN 12 ELSE 1))

\* 2024-01-31 plus one month: February 2024 has 29 days, so 2024-03-02.
C13_Witness ==
  /\ RelCalled
  /\ BaseCivil = <<2024, 1, 31>>
  /\ relArgs.period = 1 /\ relArgs.unit = "months" /\ relArgs.direction = "after"
  /\ CivilOf(relResult) = <<2024, 3, 2>>

(***************************************************************************)
(* The resolver's claims                                                   *)
(***************************************************************************)
\* The event a relative event names, by title alone: the first event of the
\* snapshot with that title, or 0.
Target(i) ==
  IF i = 0 \/ events[i].dateType # "relative" THEN 0
  ELSE LET same == {j \in 1..Len(events) :
                      events[i].relativeEventName = Some(events[j].title)}
       IN IF same = {} THEN 0 ELSE MinOf(same)

\* The event reached from event i after k references.
RECURSIVE Follow(_, _)
Follow(i, k) == IF k = 0 THEN i ELSE Follow(Target(i), k - 1)

\* Event i lies on a cycle of references.
OnCycle(i) == \E k \in 1..Len(events) : Follow(i, k) = i
\* The chain of references from event i runs into a cycle.
ReachesCycle(i) == Follow(i, Len(events)) # 0

Done == pc = "done"
StartedEvent == events[started]

\* C1: resolving an event on a reference cycle (a self-reference, or A -> B
\* and B -> A) returns the unresolvable value; the resolution does not
\* overflow the stack.
C1_CycleIsUnresolvable ==
  (Done /\ OnCycle(started)) => ret = Null

\* C2: the depth of the recursive resolution never exceeds the number of
\* events in the snapshot.
C2_DepthAtMostEvents == Len(stack) <= Len(events)

\* C3: the top-level resolver never raises an exception for missing fields,
\* a dangling reference, an out-of-range occurrence or an invalid unit
\* (events whose reference chain runs into no cycle).
C3_NeverThrows ==
  (Done /\ ~ReachesCycle(started)) => ~IsThrow(ret)

\* A required field of the event's active mode is null or missing.
Missing(x) == x = Null \/ x = Undefined
MissingRequired(e) ==
  CASE e.dateType = "fixed" -> Missing(e.startDate)
    [] e.dateType = "nth" ->
         Missing(e.nthOccurrence) \/ Missing(e.dayOfWeek) \/ Missing(e.month)
    [] e.dateType = "relative" ->
         \/ Missing(e.relativePeriod) \/ Missing(e.relativeUnit)
         \/ Missing(e.relativeDirection) \/ Missing(e.relativeEventName)

\* C4: an event with a required field of its mode null or missing resolves
\* to unresolvable, and with dayOfWeek null or missing the weekday scan is
\* never entered, in either resolver.
C4_MissingFieldsUnresolvable ==
  /\ (Done /\ MissingRequired(StartedEvent)) => ret = Null
  /\ pc = "scan" => ~Missing(Top.dayOfWeek)

\* No event of the snapshot has the title the event names.
Dangling(e) ==
  /\ e.dateType = "relative"
  /\ \A j \in 1..Len(events) : e.relativeEventName # Some(events[j].title)

FailureReason(i) ==
  LET e == events[i]
  IN CASE MissingRequired(e) -> "missing-fields"
       [] ~MissingRequired(e) /\ Dangling(e) -> "reference-not-found"
       [] OTHER -> "none"

\* C6: two events that fail for different reasons never yield the same
\* result value: the caller can tell missing fields from a reference that
\* is not found by the returned value alone.
C6_FailuresDistinguishable ==
  (/\ Done
   /\ earlier # <<>>
   /\ FailureReason(started) # "none"
   /\ FailureReason(earlier[1]) # "none"
   /\ FailureReason(started) # FailureReason(earlier[1]))
  => ret # earlier[2]

\* The calendar date a startDate denotes: of a Date object the local date of
\* its instant, of a string the date it spells.
CalendarDateOf(dateValue) ==
  IF dateValue[1] = "string"
  THEN <<dateValue[2], dateValue[3], dateValue[4]>>
  ELSE CivilFromDays(LocalDay(dateValue[2]))

HasOwnDate(e) ==
  \/ e.dateType = "fixed" /\ ~Missing(e.startDate)
  \/ e.dateType = "nth" /\ ~MissingRequired(e) /\ e.nthOccurrence[1] \in {-1, 1, 2, 3, 4}

\* C14: a relative event with all its fields present, a unit outside days,
\* weeks, months and years, and a reference that resolves, makes the
\* top-level resolver return the unresolvable value: no date, no exception.
C14_InvalidUnitUnresolvable ==
  (/\ Done
   /\ StartedEvent.dateType = "relative"
   /\ ~MissingRequired(StartedEvent)
   /\ StartedEvent.relativeUnit[1] \notin ValidUnits
   /\ Target(started) # 0
   /\ HasOwnDate(events[Target(started)]))
  => ret = Null

\* The YYYY-MM-DD a stored startDate was created with: the date a string
\* spells, and the UTC date of a Date made by the schema's new Date(string).
CreatedDate(dateValue) ==
  IF dateValue[1] = "string"
  THEN <<dateValue[2], dateValue[3], dateValue[4]>>
  ELSE CivilFromDays(dateValue[2] \div 24)

\* The digits YYYYMMDD of a civil date.
Digits(c) == c[1] * 10000 + c[2] * 100 + c[3]
\* The civil date that digits YYYYMMDD spell.
Spelled(n) == <<n \div 10000, (n \div 100) % 100, n % 100>>

Exported == exported.status = "ok"
\* The event of the exported snapshot a VEVENT was written for.
EventOf(v) ==
  exported.snapshot[CHOOSE j \in 1..Len(exported.snapshot) :
                      exported.snapshot[j].id = v.uid]

\* C11: the resolved date and the exported DTSTART of a fixed event have the
\* year, month and day of the YYYY-MM-DD the event was created with, in every
\* time zone of the runtime and for a startDate held as a string or as a Date.
C11_NoDayShift ==
  /\ (Done /\ StartedEvent.dateType = "fixed" /\ StartedEvent.startDate # Null) =>
       /\ IsDate(ret)
       /\ CivilOf(ret) = CreatedDate(StartedEvent.startDate[1])
  /\ Exported =>
       \A k \in 1..Len(exported.vevents) :
         LET v == exported.vevents[k]
         IN EventOf(v).dateType = "fixed" =>
              v.dtstart = Digits(CreatedDate(EventOf(v).startDate[1]))

\* A relative event with its four fields present and a unit of the four.
WellFormed(e) ==
  /\ e.dateType = "relative"
  /\ ~MissingRequired(e)
  /\ e.relativeUnit[1] \in ValidUnits
  /\ e.relativePeriod[1] > 0
\* The date of an event that has a date of its own, as resolver which reads it.
OwnDate(which, e) ==
  IF e.dateType = "fixed"
  THEN ResolveFixed(which, e)
  ELSE calculateNthDate(e.nthOccurrence[1], e.dayOfWeek[1], e.month[1],
                        e.baseYear[1])
\* The offset of relative event e applied to the instant t.
Offset(e, t) ==
  calculateRelativeDate(t, e.relativePeriod[1], e.relativeUnit[1],
                        e.relativeDirection[1])
\* Event i references an event that references an event with a date of its
\* own that does not depend on the clock.
ChainOfTwo(i) ==
  /\ WellFormed(events[i])
  /\ Target(i) # 0
  /\ WellFormed(events[Target(i)])
  /\ Target(Target(i)) # 0
  /\ LET a == events[Target(Target(i))]
     IN HasOwnDate(a) /\ (a.dateType = "nth" => TruthyNum(a.baseYear))

\* C15: when C references B and B references A, resolving C gives A's date
\* with B's offset and then C's offset applied, computed from the collection
\* as it is stored when the call is made: a change of A's date shows in the
\* next resolution of C.
C15_ChainAppliesOffsetsInOrder ==
  (Done /\ ChainOfTwo(started)) =>
    LET b == events[Target(started)]
        a == events[Target(Target(started))]
    IN ret = Offset(StartedEvent, Offset(b, OwnDate(resolver, a)[1])[1])

\* C = 2 weeks after B, B = 1 month after A, resolved again after A's
\* startDate was changed to 2025-01-31: 2025-03-03 plus 14 days.
C15_Witness ==
  /\ Done
  /\ tzOffset = 9
  /\ ChainOfTwo(started)
  /\ earlier # <<>>
  /\ earlier[1] = started
  /\ earlier[3] # events
  /\ events[1].startDate = Some(EndOfJanuary)
  /\ StartedEvent.relativeUnit = Some("weeks")
  /\ events[2].relativeUnit = Some("months")
  /\ earlier[2] # ret
  /\ ret = Some(ParseISO(2025, 3, 17))

\* The call before this one was made by the same resolver on the same event
\* and the same snapshot.
SameCallBefore ==
  /\ earlier # <<>>
  /\ earlier[1] = started
  /\ earlier[3] = events
  /\ earlier[4] = resolver

\* C16: two calls of the resolver with the same event and the same snapshot
\* return the same result, whatever happened between them, the passing of
\* the wall clock into another year included.
C16_SameInputSameResult ==
  (Done /\ SameCallBefore) => ret = earlier[2]

\* C17: a resolver call and an ICS export change no event: every step that
\* is not an update or a deletion leaves the stored collection as it was,
\* its Date objects included, and a running call leaves its snapshot as it
\* was handed in.
C17_ResolveAndExportWriteNothing ==
  [][/\ writes' = writes => store' = store
     /\ pc \notin {"idle", "done"} => events' = events]_vars

\* A relative event has been resolved and the collection, which holds a
\* fixed event with an endDate, has been exported in full.
C17_Witness ==
  /\ Done
  /\ IsDate(ret)
  /\ StartedEvent.dateType = "relative"
  /\ Exported
  /\ Len(exported.vevents) = 3
  /\ \E j \in 1..Len(store) : store[j].endDate # Null
  /\ store = exported.snapshot
  /\ store = events

\* The earliest event of a collection, in its order, with the title name[1].
FirstTitled(collection, name) ==
  collection[MinOf({j \in 1..Len(collection) : name = Some(collection[j].title)})]

\* An event whose date does not depend on the clock or on other events.
HasFixedOwnDate(e) ==
  HasOwnDate(e) /\ (e.dateType = "nth" => TruthyNum(e.baseYear))

\* C18: a relative event is resolved against the first event of the
\* snapshot, in its order, whose title equals relativeEventName, whatever
\* the ids and positions of the events are and however many share the title.
C18_FirstTitleMatch ==
  /\ (/\ Done
      /\ WellFormed(StartedEvent)
      /\ Target(started) # 0
      /\ HasFixedOwnDate(events[Target(started)]))
     => ret = Offset(StartedEvent, OwnDate(resolver, events[Target(started)])[1])
  /\ Exported =>
       \A k \in 1..Len(exported.vevents) :
         LET e == EventOf(exported.vevents[k])
             first == FirstTitled(exported.snapshot, e.relativeEventName)
         IN (WellFormed(e) /\ HasFixedOwnDate(first)) =>
              exported.vevents[k].dtstart =
                FormatDate(Offset(e, OwnDate(exported.by, first)[1])[1])

\* After a rename the first two events share the title the third one names,
\* and have different dates: the third is resolved against the first.
C18_Witness ==
  /\ Done
  /\ started = 3
  /\ WellFormed(StartedEvent)
  /\ StartedEvent.relativeEventName = Some(events[1].title)
  /\ events[1].title = events[2].title
  /\ HasFixedOwnDate(events[1])
  /\ HasFixedOwnDate(events[2])
  /\ OwnDate(resolver, events[1]) # OwnDate(resolver, events[2])
  /\ ret = Offset(StartedEvent, OwnDate(resolver, events[1])[1])

\* Following the references from event e of a collection, at most fuel of
\* them, leads to a relative event that names a title no event has.
RECURSIVE Broken(_, _, _)
Broken(collection, e, fuel) ==
  /\ e.dateType = "relative"
  /\ LET named == {j \in 1..Len(collection) :
                     e.relativeEventName = Some(collection[j].title)}
     IN \/ named = {}
        \/ fuel > 0 /\ Broken(collection, collection[MinOf(named)], fuel - 1)

\* C19: once no event has the title T (its only holder was renamed or
\* deleted), every relative event naming T and every event chained off one
\* resolves to the unresolvable value and is left out of the export; the
\* update or deletion changes no event but its own.
C19_RenameBreaksDependents ==
  /\ [](Done /\ Broken(events, StartedEvent, Len(events)) => ret = Null)
  /\ [](Exported =>
          \A k \in 1..Len(exported.vevents) :
            ~Broken(exported.snapshot, EventOf(exported.vevents[k]),
                    Len(exported.snapshot)))
  /\ [][Cardinality({j \in 1..Len(store) :
                       \A k \in 1..Len(store') : store'[k] # store[j]}) <= 1]_vars

\* C names B and B names A; C resolved to a date, then A was renamed and C
\* is unresolvable, with its own fields as they were.
C19_Witness ==
  /\ Done
  /\ started = 3
  /\ ret = Null
  /\ earlier # <<>>
  /\ earlier[1] = 3
  /\ IsDate(earlier[2])
  /\ events[3] = earlier[3][3]
  /\ events[2] = earlier[3][2]
  /\ events[3].relativeEventName = Some("B")
  /\ events[2].relativeEventName = Some("A")
  /\ earlier[3][1].title = "A"
  /\ events[1].title = "Z"

\* The date the resolver of the export gives the event a VEVENT was written
\* for, on the export's snapshot.
ResolvedFor(v) ==
  calculateEventDate(exported.by, exported.snapshot, EventOf(v), 1)

\* C20: for every event written to the ICS output, by the server route and
\* by generateICS, DTSTART is the event's resolved date and DTEND is the
\* resolved date plus exactly one calendar day.
C20_EndIsStartPlusOneDay ==
  (Exported /\ exported.clock = clockYear) =>
    \A k \in 1..Len(exported.vevents) :
      LET v == exported.vevents[k]
          resolved == ResolvedFor(v)
      IN /\ IsDate(resolved)
         /\ v.dtstart = Digits(CivilOf(resolved))
         /\ OrdinalDay(Spelled(v.dtend)) = OrdinalDay(CivilOf(resolved)) + 1

\* Known calendar facts the date model must reproduce.
CalendarFacts ==
  /\ DaysFromCivil(1970, 1, 1) = 0
  /\ DaysFromCivil(2024, 3, 5) = 19787
  /\ CivilFromDays(19787) = <<2024, 3, 5>>
  /\ ZellerDay(2024, 3, 5) = 2
  /\ ZellerDay(2000, 1, 1) = 6
  /\ getDay(NewDate(2024, 2, 5)) = 2
  /\ getDay(NewDate(2024, 2, 29)) = 5
  /\ NewDate(2024, 2, 0) = NewDate(2024, 1, 29)
  /\ NewDate(2023, 2, 0) = NewDate(2023, 1, 28)
  /\ NewDate(2024, 12, 1) = NewDate(2025, 0, 1)
  /\ calculateNthDate(1, 2, 3, 2024) = Some(NewDate(2024, 2, 5))
  /\ calculateNthDate(-1, 5, 3, 2024) = Some(NewDate(2024, 2, 29))
  /\ calculateNthDate(53, 2, 3, 2024) = Some(NewDate(2025, 2, 4))
  /\ OrdinalDay(<<2024, 3, 5>>) - OrdinalDay(<<1970, 1, 1>>) = 19787
  /\ calculateRelativeDate(NewDate(2024, 11, 25), 1, "months", "after")
       = Some(NewDate(2025, 0, 25))
(***************************************************************************)
(* The exports' claims                                                     *)
(***************************************************************************)
\* The ids of the events among the first n of the exported snapshot that the
\* exporting side's resolver gives a date, in snapshot order.
RECURSIVE ResolvableIds(_)
ResolvableIds(n) ==
  IF n = 0 THEN <<>>
  ELSE IF IsDate(calculateEventDate(exported.by, exported.snapshot,
                                    exported.snapshot[n], 1))
       THEN Append(ResolvableIds(n - 1), exported.snapshot[n].id)
       ELSE ResolvableIds(n - 1)

ExportRan == exported # NotExported

\* C21: an export over any snapshot completes, and its VEVENTs are exactly
\* one for each event of the snapshot that resolves to a date, in snapshot
\* order; an unresolvable event is left out and does not keep the events
\* after it from being written.
C21_ExportOnePerResolvable ==
  ExportRan =>
    /\ exported.status = "ok"
    /\ [k \in 1..Len(exported.vevents) |-> exported.vevents[k].uid]
         = ResolvableIds(Len(exported.snapshot))

(***************************************************************************)
(* calculateNthDate: the fourth and the last occurrence                    *)
(***************************************************************************)
\* The fourth occurrence for the arguments of the call.
FourthOccurrence ==
  calculateNthDate(4, nthArgs.dayOfWeek, nthArgs.month, nthArgs.year)
\* The month of the call has five days on the weekday of the call.
FiveSuchWeekdays ==
  Cardinality(DaysOnWeekday(nthArgs.year, nthArgs.month, nthArgs.dayOfWeek)) = 5

\* C24: for every year, month and weekday, occurrences 1 to 4 are found, and
\* the last occurrence (-1) is the fourth, or the fourth plus seven days
\* exactly when the month has five such weekdays; it is never before the
\* fourth.
C24_LastIsFourthOrFifth ==
  NthCalled =>
    /\ nthArgs.nthOccurrence \in 1..4 => IsDate(nthResult)
    /\ nthArgs.nthOccurrence = -1 =>
         /\ IsDate(nthResult)
         /\ IsDate(FourthOccurrence)
         /\ LocalDay(nthResult[1])
              = LocalDay(FourthOccurrence[1]) + (IF FiveSuchWeekdays THEN 7 ELSE 0)
         /\ LocalHour(nthResult[1]) = LocalHour(FourthOccurrence[1])

\* February 2024 has five Thursdays: the last is 2024-02-29, a week after the
\* fourth, 2024-02-22.
C24_Witness ==
  /\ nthArgs = [nthOccurrence |-> -1, dayOfWeek |-> 4, month |-> 2, year |-> 2024]
  /\ nthResult # Pending
  /\ CivilOf(nthResult) = <<2024, 2, 29>>
  /\ CivilOf(FourthOccurrence) = <<2024, 2, 22>>
  /\ FiveSuchWeekdays

(***************************************************************************)
(* The two resolvers side by side                                          *)
(***************************************************************************)
OtherResolver == IF resolver = "server" THEN "client" ELSE "server"
\* Two outcomes of a call are the same: the same calendar date, or both the
\* unresolvable value.
SameOutcome(a, b) ==
  IF IsDate(a) /\ IsDate(b) THEN CivilOf(a) = CivilOf(b)
  ELSE a = Null /\ b = Null

\* C25: for every event and snapshot, the server's and the client's
\* calculateEventDate return the same calendar date or both return
\* unresolvable; neither throws or fails to return where the other returns.
C25_ResolversAgree ==
  Done =>
    SameOutcome(ret, calculateEventDate(OtherResolver, events, StartedEvent, 1))

(***************************************************************************)
(* update-year's claims                                                    *)
(***************************************************************************)
\* A collection with baseYear set on its nth events and nothing else changed.
Rebased(collection, newYear) ==
  [j \in 1..Len(collection) |->
     IF collection[j].dateType = "nth"
     THEN [collection[j] EXCEPT !.baseYear = newYear]
     ELSE collection[j]]

YearSucceeded == yearOp.pc = "responded" /\ yearOp.status = 200

\* C22: a successful update-year(newYear) sets baseYear = newYear on every
\* stored nth event and changes nothing else: the operation works on the
\* collection as stored when it was requested, each step of it leaves every
\* event as it was or sets the baseYear of an nth event, and when it answers
\* the stored collection is the one it started from with baseYear = newYear
\* on the nth events -- the same ids, in the same order, every other field
\* and every fixed and relative event untouched.
C22_UpdateYearSetsOnlyBaseYear ==
  [][/\ (yearOp.pc = "idle" /\ yearOp'.pc = "awaitEvents") =>
          (yearOp'.events = store /\ store' = store)
     /\ yearOp' # yearOp =>
          /\ Len(store') = Len(store)
          /\ \A j \in 1..Len(store) :
               \/ store'[j] = store[j]
               \/ /\ store[j].dateType = "nth"
                  /\ store'[j] = [store[j] EXCEPT !.baseYear = yearOp'.newYear]
     /\ (yearOp.pc # "responded" /\ yearOp'.pc = "responded"
           /\ yearOp'.status = 200) =>
          store' = Rebased(yearOp'.events, yearOp'.newYear)]_vars

\* update-year(2030) has answered: the nth event created with baseYear 2024
\* has baseYear 2030, and the relative event after it is as it was.
C22_Witness ==
  /\ YearSucceeded
  /\ yearOp.newYear = Some(2030)
  /\ yearOp.events[1].dateType = "nth" /\ yearOp.events[1].baseYear = Some(2024)
  /\ store[1] = [yearOp.events[1] EXCEPT !.baseYear = Some(2030)]
  /\ store[2].dateType = "relative" /\ store[2] = yearOp.events[2]
  /\ UpdatedCount >= 1

\* What the server's resolver returns for event j of a collection.
Resolved(collection, j) == calculateEventDate("server", collection, collection[j], 1)

\* The event a relative event names, or 0.
NamedBy(collection, e) ==
  IF e.dateType = "relative" /\ e.relativeEventName # Null
  THEN FindByTitle(collection, e.relativeEventName[1])
  ELSE 0

\* The dateType of the event a chain of references ends at, or "none".
RECURSIVE RootType(_, _, _)
RootType(collection, e, fuel) ==
  IF e.dateType # "relative" THEN e.dateType
  ELSE IF fuel = 0 \/ NamedBy(collection, e) = 0 THEN "none"
       ELSE RootType(collection, collection[NamedBy(collection, e)], fuel - 1)

\* C23: after a successful update-year(Y), the resolver gives every stored
\* nth event a date in year Y or the unresolvable value; a relative event
\* whose reference resolves gets the date its offset yields from the
\* reference's date, which for an nth reference is the occurrence in year Y;
\* and no step of update-year changes what a fixed event, or a relative
\* event whose chain of references ends at a fixed event, resolves to.
C23_RecomputedFromNewYear ==
  /\ [](YearSucceeded =>
          \A j \in 1..Len(store) :
            /\ store[j].dateType = "nth" =>
                 /\ Resolved(store, j) = Null
                      \/ (IsDate(Resolved(store, j))
                            /\ getFullYear(Resolved(store, j)[1]) = yearOp.newYear[1])
                 /\ NthFieldsPresent("server", store[j]) =>
                      Resolved(store, j)
                        = CatchToNull(calculateNthDate(
                            store[j].nthOccurrence[1], store[j].dayOfWeek[1],
                            store[j].month[1], yearOp.newYear[1]))
            /\ (NamedBy(store, store[j]) # 0
                  /\ IsDate(Resolved(store, NamedBy(store, store[j])))) =>
                 Resolved(store, j)
                   = ApplyRelative("server", store[j],
                                   Resolved(store, NamedBy(store, store[j]))[1]))
  /\ [][yearOp' # yearOp =>
          \A j \in 1..Len(store) :
            RootType(store, store[j], Len(store)) = "fixed" =>
              /\ j <= Len(store')
              /\ Resolved(store', j) = Resolved(store, j)]_vars

\* update-year(2030) has answered: the first Tuesday of March is 2030-03-05,
\* the event one month after it is on 2030-04-05, and New Year's Eve 2024 is
\* where it was.
C23_Witness ==
  /\ YearSucceeded
  /\ yearOp.newYear = Some(2030)
  /\ yearOp.events[1].baseYear = Some(2024)
  /\ CivilOf(Resolved(store, 1)) = <<2030, 3, 5>>
  /\ store[2].dateType = "relative"
  /\ CivilOf(Resolved(store, 2)) = <<2030, 4, 5>>
  /\ store[3].dateType = "fixed"
  /\ Resolved(store, 3) = Resolved(yearOp.events, 3)
  /\ IsDate(Resolved(store, 3))

\* The request carried an integer year from 2020 to 2050.
YearAdmitted == yearOp.newYear \in {Some(y) : y \in 2020..2050}

\* C26: update-year answers 400 to a newYear that is absent, not a number,
\* below 2020 or above 2050, and then modifies no stored event; it accepts
\* every integer year from 2020 to 2050.
C26_YearValidated ==
  /\ [](yearOp.pc # "idle" =>
          IF YearAdmitted
          THEN yearOp.status # 400 /\ (yearOp.pc = "responded" => yearOp.status = 200)
          ELSE /\ yearOp.pc = "responded"
               /\ yearOp.status = 400
               /\ yearOp.returns = <<>>
               /\ yearOp.updatedEvents = <<>>)
  /\ [][(yearOp.status = 400 \/ yearOp'.status = 400) => store' = store]_vars

\* update-year(2051) over a collection that holds an nth event was answered
\* 400.
C26_Witness ==
  /\ yearOp.pc = "responded"
  /\ yearOp.status = 400
  /\ yearOp.newYear = Some(2051)
  /\ \E j \in 1..Len(store) : store[j].dateType = "nth"

\* How many of the updateEvent calls of the operation found their event and
\* set its baseYear.
YearApplied ==
  Cardinality({k \in 1..Len(yearOp.returns) : yearOp.returns[k] # Undefined})

\* C27: the updatedCount update-year reports is the number of stored events
\* whose baseYear the operation set, whatever requests ran between its
\* awaits; an event deleted after the snapshot was read is not counted.
C27_CountIsWhatWasSet ==
  YearSucceeded => UpdatedCount = YearApplied

(***************************************************************************)
(* The storage's claims                                                    *)
(***************************************************************************)
\* The positions of a collection that hold the id.
Holding(collection, id) == {j \in 1..Len(collection) : collection[j].id = id}

\* C28: on an id that is not stored, deleteEvent returns false, updateEvent
\* and getEvent return undefined (each answered 404 by its route), and the
\* stored collection stays as it is;
\* updateEvent on a stored id changes only the supplied fields of that one
\* event, keeps its id and createdAt and leaves the other events as they
\* are; deleteEvent on a stored id removes exactly that event and returns
\* true.
C28_StorageFrame ==
  [][/\ (reply' # reply /\ reply'.route = "GET") =>
          /\ store' = store
          /\ IF Holding(store, reply'.id) = {}
             THEN reply'.status = 404
             ELSE /\ reply'.status = 200
                  /\ \E j \in Holding(store, reply'.id) : reply'.body = Some(store[j])
     /\ (writes' # writes /\ reply'.route = "DELETE") =>
          IF Holding(store, reply'.id) = {}
          THEN reply'.status = 404 /\ store' = store
          ELSE /\ reply'.status = 204
               /\ Len(store') = Len(store) - 1
               /\ Holding(store', reply'.id) = {}
               /\ \E j \in Holding(store, reply'.id) :
                    store' = [k \in 1..(Len(store) - 1) |->
                                IF k < j THEN store[k] ELSE store[k + 1]]
     /\ (writes' # writes /\ reply'.route = "PATCH") =>
          IF Holding(store, reply'.id) = {}
          THEN reply'.status = 404 /\ store' = store
          ELSE \E j \in Holding(store, reply'.id) :
                 /\ reply'.status = 200
                 /\ reply'.body = Some(store'[j])
                 /\ Len(store') = Len(store)
                 /\ \A k \in 1..Len(store) : k # j => store'[k] = store[k]
                 /\ store'[j].id = store[j].id
                 /\ store'[j].createdAt = store[j].createdAt
                 /\ \E supplied \in UpdateData :
                      \A field \in DOMAIN store[j] :
                        store'[j][field] = IF field \in DOMAIN supplied
                                            THEN supplied[field]
                                            ELSE store[j][field]]_vars

\* DELETE of an id that is not stored was answered 404 after a PATCH renamed
\* a stored event: three events are stored, one of them retitled.
C28_Witness ==
  /\ reply.route = "DELETE"
  /\ reply.status = 404
  /\ Holding(store, reply.id) = {}
  /\ Len(store) = 3
  /\ \E j \in 1..3 : store[j].title = "Z" /\ store[j].id = j /\ store[j].createdAt = j
  /\ writes = 2

(***************************************************************************)
(* The import's claims                                                     *)
(***************************************************************************)
\* The records of the upload that validation accepts, by position.
AcceptedRows(records) ==
  {k \in 1..Len(records) : SchemaAccepts(EventData(records[k]))}

ImportDone == importOp.pc = "responded"

\* C29: the import goes through every record in order; when it answers,
\* total = successful + failed, there is one error message for each record
\* that failed validation and none for the others, and the events added to
\* storage are exactly one for each record that passed, in the order of the
\* records; a record that fails creates no event and does not stop the
\* records after it.
C29_ImportCounts ==
  /\ [](ImportDone =>
          /\ importOp.total = Len(importOp.records)
          /\ importOp.total = importOp.successful + importOp.failed
          /\ importOp.successful = Cardinality(AcceptedRows(importOp.records))
          /\ Len(importOp.errors) = importOp.failed
          /\ {importOp.errors[k] : k \in 1..Len(importOp.errors)}
               = (1..Len(importOp.records)) \ AcceptedRows(importOp.records)
          /\ Len(store) = Len(events) + importOp.successful
          /\ nextId = Len(events) + 1 + importOp.successful)
  /\ [][importOp' # importOp =>
          /\ Len(store') \in {Len(store), Len(store) + 1}
          /\ SubSeq(store', 1, Len(store)) = store
          /\ Len(store') = Len(store) + 1 =>
               /\ importOp'.i \in AcceptedRows(importOp'.records)
               /\ store'[Len(store')]
                    = [SchemaParse(EventData(importOp'.records[importOp'.i]))
                         EXCEPT !.id = nextId, !.createdAt = nextId]
          /\ \A k \in 1..Len(importOp'.errors) :
               k < Len(importOp'.errors) => importOp'.errors[k] < importOp'.errors[k + 1]]_vars

\* An upload of three records, the second failing validation, was answered:
\* two events were added, the one from the third record last.
C29_Witness ==
  /\ ImportDone
  /\ importOp.total = 3
  /\ importOp.successful = 2
  /\ importOp.failed = 1
  /\ importOp.errors = <<2>>
  /\ Len(store) = Len(events) + 2
  /\ store[Len(store)].title = importOp.records[3].title

(***************************************************************************)
(* clear-all's claims                                                      *)
(***************************************************************************)
ClearDone == clearOp.pc = "responded"
\* How many of the deleteEvent calls of the operation removed an event.
ClearRemoved ==
  Cardinality({k \in 1..Len(clearOp.returns) : clearOp.returns[k]})

\* C30: when clear-all has answered, no event that was stored when it read
\* the collection is stored, and its deletedCount is the number of events
\* its own deleteEvent calls removed, whatever requests ran between its
\* awaits: each of its calls that returned true removed exactly the event it
\* named, each that returned false removed nothing, and only the former are
\* counted.
C30_ClearAllCount ==
  /\ [](ClearDone =>
          /\ \A j \in 1..Len(clearOp.events) :
               Holding(store, clearOp.events[j].id) = {}
          /\ Len(clearOp.returns) = Len(clearOp.events)
          /\ clearOp.deletedCount = ClearRemoved)
  /\ [][(clearOp' # clearOp /\ clearOp'.pc = "awaitDelete") =>
          IF clearOp'.returns[clearOp'.at]
          THEN /\ Len(store') = Len(store) - 1
               /\ Holding(store, clearOp'.events[clearOp'.at].id) # {}
               /\ store' = SelectSeq(store, LAMBDA e :
                                       e.id # clearOp'.events[clearOp'.at].id)
          ELSE /\ store' = store
               /\ Holding(store, clearOp'.events[clearOp'.at].id) = {}]_vars

\* clear-all read two events; another request deleted one of them and a
\* third created an event before clear-all reached them: it reports one
\* deletion, and the created event is still stored.
C30_Witness ==
  /\ ClearDone
  /\ Len(clearOp.events) = 2
  /\ clearOp.deletedCount = 1
  /\ clearOp.returns \in {<<TRUE, FALSE>>, <<FALSE, TRUE>>}
  /\ Len(store) = 1
  /\ store[1].title = "N"

====
